---- MODULE Spec2Model ----
(***************************************************************************)
(* kanoniv: local identity resolution.                                     *)
(*                                                                         *)
(* The model follows python/src/kanoniv: reconcile() (reconcile.py), the   *)
(* ingest bridge Source.to_entities (source.py), .knv persistence          *)
(* (ReconcileResult.save / load) and the changelog (changelog.py).  The    *)
(* native engine (kanoniv._native) is not part of the Python sources; its  *)
(* blocking, scoring and clustering are modelled from the design document  *)
(* (sections 4.C-4.G and 4.I) and are marked as such.                      *)
(*                                                                         *)
(* A state holds the results returned so far (res), the call that made     *)
(* each of them (calls), the .knv file on disk (file) and the last         *)
(* changelog computed (log); raised holds the last source-spec mismatch    *)
(* error reconcile raised, ev the last evaluation made.  cloud is the      *)
(* cloud reconcile call in progress (cloud.py), clock the monotonic clock  *)
(* it reads and server the API server it talks to.  http is the HTTP       *)
(* transport of an API client and the request it is making.  dbt holds the *)
(* tables of the dbt-sql example pipeline (calculate_metrics.py).          *)
(***************************************************************************)
EXTENDS Integers, Sequences, FiniteSets, TLC

VARIABLES res, calls, file, log, usePk, nextId, raised, ev,
          cloud, clock, server, http, dbt

\* The state of the local library and that of a cloud reconcile call.
localVars == <<res, calls, file, log, usePk, nextId, raised, ev>>

cloudVars == <<cloud, clock, server>>

\* The state of an API client's transport.
httpVars == <<http>>

\* The tables of the dbt-sql example pipeline.
dbtVars == <<dbt>>

vars == <<localVars, cloudVars, httpVars, dbtVars>>

\* ---------------------------------------------------------------- bounds

\* Number of results (reconcile calls and directly constructed results).
MaxRuns == 2

\* The rows the source adapters can yield.  Rows 1 and 2 come from source
\* "crm", row 3 from source "web"; column "id" is the primary-key column.
RowIds == {1, 2, 3}

RowSource(r) == IF r = 3 THEN "web" ELSE "crm"

\* Column "toks": rows 1-2 and 2-3 share a value, rows 1-3 do not; a further
\* crm row, 4, shares no value with any row.
RowToks(r) ==
    CASE r = 1 -> {"x"} [] r = 2 -> {"x", "y"} [] r = 3 -> {"y"} [] OTHER -> {"z"}

Row(r) == [id |-> r, toks |-> RowToks(r)]

\* How a source's adapter names its columns: as the spec does ("plain"), in
\* upper case as a warehouse may return them ("upper"), or with a further
\* column "note" ("extra").
Shapes == {"plain", "upper", "extra"}

\* The columns of a source of the given shape, in row order.
Columns(shape) ==
    CASE shape = "upper" -> <<"ID", "TOKS">>
      [] shape = "extra" -> <<"id", "toks", "note">>
      [] OTHER -> <<"id", "toks">>

\* The row dict an adapter of the given shape yields for row r.
RowData(r, shape) ==
    CASE shape = "upper" -> [ID |-> r, TOKS |-> RowToks(r)]
      [] shape = "extra" -> [id |-> r, toks |-> RowToks(r), note |-> "n"]
      [] OTHER -> Row(r)

\* str.lower on the column names in use.
Lower(c) ==
    CASE c = "ID" -> "id"
      [] c = "TOKS" -> "toks"
      [] OTHER -> c

SourceNames == <<"crm", "web">>

SpecHashes == {"h1", "h2"}

None == "None"

\* ---------------------------------------------------------------- helpers

Min(S) == CHOOSE x \in S : \A y \in S : x <= y

Max(S) == CHOOSE x \in S : \A y \in S : x >= y

\* sorted(S) for a finite set of integers: the integers from the least to the
\* greatest element, those outside S left out.
SetToSeq(S) ==
    IF S = {} THEN <<>>
    ELSE LET lo == Min(S)
             InS(x) == x \in S
         IN  SelectSeq([i \in 1..(Max(S) - lo + 1) |-> lo + i - 1], InS)

Range(s) == {s[i] : i \in DOMAIN s}

RECURSIVE Flatten(_)
Flatten(ss) == IF ss = <<>> THEN <<>> ELSE Head(ss) \o Flatten(Tail(ss))

\* A Python dict is kept as the insertion-ordered sequence of its items [k, v].
DictHas(d, k) == \E i \in DOMAIN d : d[i].k = k

DictGet(d, k) == d[CHOOSE i \in DOMAIN d : d[i].k = k].v

\* d[k] = v
DictPut(d, k, v) ==
    IF DictHas(d, k)
    THEN [i \in DOMAIN d |-> IF d[i].k = k THEN [k |-> k, v |-> v] ELSE d[i]] \o <<>>
    ELSE Append(d, [k |-> k, v |-> v])

\* ---------------------------------------------------------------- feedback

\* FeedbackLabel(entity_a_id, entity_b_id, source_a, source_b, label)
FeedbackLabel(a, b, sa, sb, label) ==
    [cls |-> "FeedbackLabel", entity_a_id |-> a, entity_b_id |-> b,
     source_a |-> sa, source_b |-> sb, label |-> label]

\* FeedbackLabel.to_dict
LabelToDict(f) == [f EXCEPT !.cls = "dict"]

\* The feedback arguments a caller passes: nothing, a no_match label on the
\* directly matching rows 1 and 2, or one on rows 1 and 3, which match only
\* through row 2.
FeedbackChoices ==
    { <<>>,
      <<FeedbackLabel(1, 2, "crm", "crm", "no_match")>>,
      <<FeedbackLabel(1, 3, "crm", "web", "no_match")>> }

\* ---------------------------------------------------------------- ingest

\* Source.to_entities for the rows `rows` (a sequence of row ids) of source
\* `name`: every row gets a fresh uuid4 as id; external_id is the primary-key
\* value, or a fresh uuid4 when the source has no primary key.  Fresh uuids
\* are modelled as unused integers (first, first+1, ...), external uuids as
\* 100 + the id.  last_updated is the time of the call (a clock that
\* advances with every to_entities call).
ToEntities(name, rows, pk, shape, first, now) ==
    [i \in 1..Len(rows) |->
        [id |-> first + i - 1,
         external_id |-> IF pk THEN Row(rows[i]).id ELSE 100 + first + i - 1,
         entity_type |-> "person",
         data |-> RowData(rows[i], shape),
         source_name |-> name,
         last_updated |-> now]] \o <<>>

\* The rows of batch B that source `name` yields, in row order.
SourceRows(B, name) == SetToSeq({r \in B : RowSource(r) = name})

\* The sources passed to reconcile: those with a row in batch B.
Supplied(B) ==
    LET HasRows(name) == SourceRows(B, name) # <<>>
    IN  SelectSeq(SourceNames, HasRows)

\* One entry of spec.sources: a source name and its attribute mappings, a
\* dict from canonical attribute name to source column.
SourceDecl(name, attributes) == [name |-> name, attributes |-> attributes]

\* A spec whose sources declare no attribute mappings.
PlainSources == <<SourceDecl("crm", <<>>), SourceDecl("web", <<>>)>>

PlainSpec(h) == [hash |-> h, sources |-> PlainSources]

RECURSIVE SpecByName(_, _)
\* spec_by_name = {s.get("name", ""): s for s in spec_sources}
SpecByName(spec_sources, acc) ==
    IF spec_sources = <<>> THEN acc
    ELSE SpecByName(Tail(spec_sources),
                    DictPut(acc, Head(spec_sources).name, Head(spec_sources)))

\* A check that compares the mapped column names with the actual ones as
\* they are written.
SourceErrorsCaseSensitive(name, shape, spec_by_name) ==
    IF ~DictHas(spec_by_name, name)
    THEN <<[kind |-> "not in spec", source |-> name, column |-> "", canonical |-> ""]>>
    ELSE LET attrs == DictGet(spec_by_name, name).attributes
             actual == Range(Columns(shape))
             NotFound(item) == item.v \notin actual
             missing == SelectSeq(attrs, NotFound)
         IN  [i \in DOMAIN missing |->
                [kind |-> "not found", source |-> name,
                 column |-> missing[i].v, canonical |-> missing[i].k]] \o <<>>

\* The errors _validate_source_attributes finds for one source.
SourceErrors(name, shape, spec_by_name) ==
    IF ~DictHas(spec_by_name, name)
    THEN <<[kind |-> "not in spec", source |-> name, column |-> "", canonical |-> ""]>>
    ELSE LET attrs == DictGet(spec_by_name, name).attributes
             actual == Range(Columns(shape))
             lower_actual == {Lower(c) : c \in actual}
             NotFound(item) == item.v \notin actual /\ Lower(item.v) \notin lower_actual
             missing == SelectSeq(attrs, NotFound)
         IN  [i \in DOMAIN missing |->
                [kind |-> "not found", source |-> name,
                 column |-> missing[i].v, canonical |-> missing[i].k]] \o <<>>

\* _validate_source_attributes(sources, spec.sources): (errors, warnings)
ValidateSourceAttributes(sources, shape, spec_sources) ==
    LET spec_by_name == SpecByName(spec_sources, <<>>)
        NotProvided(item) == \A i \in DOMAIN sources : sources[i] # item.k
        unused == SelectSeq(spec_by_name, NotProvided)
    IN  [errors |-> Flatten([i \in DOMAIN sources |->
                        SourceErrors(sources[i], shape, spec_by_name)]),
         warnings |-> [i \in DOMAIN unused |-> unused[i].k] \o <<>>]

RECURSIVE ReverseMap(_, _)
\* {v: k for k, v in attrs.items()}
ReverseMap(attrs, acc) ==
    IF attrs = <<>> THEN acc
    ELSE ReverseMap(Tail(attrs), DictPut(acc, Head(attrs).v, Head(attrs).k))

RECURSIVE AttrMaps(_, _)
\* reconcile step 7: attr_maps[src_name] = reverse of the source's mappings,
\* for the sources that have mappings.
AttrMaps(spec_sources, acc) ==
    IF spec_sources = <<>> THEN acc
    ELSE LET src == Head(spec_sources)
         IN  AttrMaps(Tail(spec_sources),
                 IF src.attributes # <<>> /\ src.name # ""
                 THEN DictPut(acc, src.name, ReverseMap(src.attributes, <<>>))
                 ELSE acc)

RECURSIVE LowerMap(_, _)
\* lower_map = {k.lower(): v for k, v in reverse_map.items()}
LowerMap(reverse_map, acc) ==
    IF reverse_map = <<>> THEN acc
    ELSE LowerMap(Tail(reverse_map),
                  DictPut(acc, Lower(Head(reverse_map).k), Head(reverse_map).v))

\* canonical = reverse_map.get(col) or lower_map.get(col.lower(), col)
Canonical(col, reverse_map) ==
    LET lower_map == LowerMap(reverse_map, <<>>)
    IN  IF DictHas(reverse_map, col) /\ DictGet(reverse_map, col) # ""
        THEN DictGet(reverse_map, col)
        ELSE IF DictHas(lower_map, Lower(col)) THEN DictGet(lower_map, Lower(col))
        ELSE col

\* reconcile step 8, the loop over raw_data.items(): mapped[canonical] = val
\* for every column in order, so that a later column overwrites an earlier
\* one with the same canonical name.
MapData(raw_data, shape, reverse_map) ==
    LET cols == Columns(shape)
        LastFor(n) == Max({i \in DOMAIN cols : Canonical(cols[i], reverse_map) = n})
    IN  [n \in {Canonical(cols[i], reverse_map) : i \in DOMAIN cols} |->
            raw_data[cols[LastFor(n)]]]

\* reconcile step 8 for the entities of one source.
MapEntities(entities, shape, reverse_map) ==
    IF reverse_map = <<>> THEN entities
    ELSE [i \in DOMAIN entities |->
            [entities[i] EXCEPT !.data = MapData(entities[i].data, shape, reverse_map)]] \o <<>>

RECURSIVE CollectEntities(_, _, _, _, _, _, _)
\* reconcile step 8: all_entities.extend(entities) over the sources in order,
\* the attribute mappings of each source applied to its entities.
CollectEntities(B, names, pk, shape, attr_maps, first, now) ==
    IF names = <<>> THEN <<>>
    ELSE LET name == Head(names)
             reverse_map == IF DictHas(attr_maps, name) THEN DictGet(attr_maps, name) ELSE <<>>
             es == MapEntities(ToEntities(name, SourceRows(B, name), pk, shape, first, now),
                               shape, reverse_map)
         IN  es \o CollectEntities(B, Tail(names), pk, shape, attr_maps,
                                   first + Len(es), now + 1)

Key(e) == <<e.source_name, e.external_id>>

\* reconcile step 9: entity_map = {e["id"]: (source_name, external_id)}, kept
\* as the insertion-ordered sequence of its items.
EntityMapOf(entities) ==
    [i \in 1..Len(entities) |->
        [id |-> entities[i].id, t |-> "tuple", v |-> Key(entities[i])]] \o <<>>

\* ---------------------------------------------------------------- engine
\* kanoniv._native: blocking, scoring, clustering and survivorship, after the
\* design document (4.C-4.G) and, for reconcile_incremental, 4.I.

IdsOf(entities) == {entities[i].id : i \in DOMAIN entities}

EntityById(entities, id) == CHOOSE e \in Range(entities) : e.id = id

\* 4.C/4.E: two records of one entity type that share a value of the
\* canonical attribute "toks" are a candidate pair, and the pair scores as a
\* match; a record without the attribute matches nothing.
Match(a, b) ==
    /\ a.entity_type = b.entity_type
    /\ "toks" \in DOMAIN a.data
    /\ "toks" \in DOMAIN b.data
    /\ a.data.toks \cap b.data.toks # {}

\* 4.C: candidate pairs (a, b), a.id < b.id, iterated in id order; 4.I step 3:
\* only pairs with at least one record of `fresh`.
CandidatePairs(entities, fresh) ==
    LET ids == SetToSeq(IdsOf(entities))
        ent == [i \in IdsOf(entities) |-> EntityById(entities, i)]
    IN  Flatten([i \in DOMAIN ids |->
            LET a == ids[i]
                Accept(b) == /\ a < b
                             /\ Match(ent[a], ent[b])
                             /\ (a \in fresh \/ b \in fresh)
                bs == SelectSeq(ids, Accept)
            IN  [j \in DOMAIN bs |-> <<a, bs[j]>>]])

\* 4.F: the union-find state is the set of its components.
Comp(p, i) == CHOOSE c \in p : i \in c

Union(p, a, b) == (p \ {Comp(p, a), Comp(p, b)}) \cup {Comp(p, a) \cup Comp(p, b)}

\* 4.F: the union would merge two components that contain a forbidden pair.
Blocked(p, a, b, forbid) ==
    \E u \in Comp(p, a), v \in Comp(p, b) : {u, v} \in forbid

RECURSIVE UnionFind(_, _, _)
\* 4.F: union on every accepted edge in order; a blocked union is skipped.
UnionFind(p, edges, forbid) ==
    IF edges = <<>> THEN p
    ELSE LET a == Head(edges)[1]
             b == Head(edges)[2]
             q == IF Comp(p, a) = Comp(p, b) \/ Blocked(p, a, b, forbid) THEN p
                  ELSE Union(p, a, b)
         IN  UnionFind(q, Tail(edges), forbid)

\* 4.I step 5: the edges that seed the union-find with the prior clusters.
SeedEdges(clusters) ==
    Flatten([k \in DOMAIN clusters |->
        [i \in 1..Len(clusters[k]) |-> <<clusters[k][1], clusters[k][i]>>]])

\* 4.F output: sorted member lists, ordered by smallest member.
ClustersOf(p) ==
    LET roots == SetToSeq({Min(c) : c \in p})
    IN  [k \in 1..Len(roots) |-> SetToSeq(CHOOSE c \in p : Min(c) = roots[k])] \o <<>>

\* 4.G: kanoniv_id = hash("kanoniv-v1" || sorted member (source, external_id)
\* tuples); the hash is taken to be injective, so the id is the multiset of
\* member tuples: the set of (tuple, number of members with that tuple).
KanonivId(entities, cluster) ==
    LET keys == [i \in DOMAIN cluster |-> Key(EntityById(entities, cluster[i]))] \o <<>>
    IN  {<<k, Cardinality({i \in DOMAIN keys : keys[i] = k})>> : k \in Range(keys)}

\* 4.G: one golden record per cluster, in cluster order.
GoldenRecords(entities, clusters) ==
    [k \in DOMAIN clusters |->
        [kanoniv_id |-> KanonivId(entities, clusters[k])]] \o <<>>

\* 4.F: no_match labels become forbid-merge pairs of the records they name.
ForbidPairs(entities, feedback) ==
    {{a.id, b.id} : <<a, b>> \in
        {<<a, b>> \in Range(entities) \X Range(entities) :
            \E i \in DOMAIN feedback :
                /\ feedback[i].label = "no_match"
                /\ Key(a) = <<feedback[i].source_a, feedback[i].entity_a_id>>
                /\ Key(b) = <<feedback[i].source_b, feedback[i].entity_b_id>>}}

\* One engine run: seed, block, score, cluster, survive.
EngineRun(entities, seed, fresh, forbid, params) ==
    LET pairs    == CandidatePairs(entities, fresh)
        seeded   == UnionFind({{i} : i \in IdsOf(entities)}, SeedEdges(seed), {})
        clusters == ClustersOf(UnionFind(seeded, pairs, forbid))
    IN  [clusters |-> clusters,
         golden_records |-> GoldenRecords(entities, clusters),
         decisions |-> [i \in DOMAIN pairs |->
                          [a |-> pairs[i][1], b |-> pairs[i][2], decision |-> "match"]] \o <<>>,
         telemetry |-> [pairs_evaluated |-> Len(pairs)],
         trained_fs_params |-> params]

\* Dispatch of a call into kanoniv._native: reconcile_local,
\* reconcile_with_feedback and reconcile_incremental.
Engine(call) ==
    CASE call.fn = "reconcile_local" ->
            EngineRun(call.entities, <<>>, IdsOf(call.entities), {}, "fs0")
      [] call.fn = "reconcile_with_feedback" ->
            EngineRun(call.entities, <<>>, IdsOf(call.entities),
                      ForbidPairs(call.entities, call.feedback), "fs1")
      [] OTHER ->
            EngineRun(call.existing \o call.entities, call.clusters,
                      IdsOf(call.entities), {}, call.trained_fs_params)

\* ---------------------------------------------------------------- results

\* ReconcileResult(clusters, golden_records, decisions, telemetry) as the
\* dataclass constructor leaves it: none of the private attributes is set.
\* attrs is the set of private attributes the object carries.
BareResult(clusters, golden_records, decisions, telemetry) ==
    [clusters |-> clusters, golden_records |-> golden_records,
     decisions |-> decisions, telemetry |-> telemetry,
     attrs |-> {}, entity_map |-> <<>>, trained_fs_params |-> None,
     spec_hash |-> None, entities |-> <<>>, entities_is_none |-> TRUE,
     feedback |-> <<>>]

AllAttrs == {"_entity_map", "_trained_fs_params", "_spec_hash", "_entities", "_feedback"}

\* getattr(result, "_entity_map", {})
GetEntityMap(r) == IF "_entity_map" \in r.attrs THEN r.entity_map ELSE <<>>

\* getattr(previous, "_spec_hash", None)
GetSpecHash(r) == IF "_spec_hash" \in r.attrs THEN r.spec_hash ELSE None

\* getattr(previous, "_trained_fs_params", None)
GetTrainedFsParams(r) ==
    IF "_trained_fs_params" \in r.attrs THEN r.trained_fs_params ELSE None

\* getattr(previous, "_entities", None) or []
ExistingEntities(r) ==
    IF "_entities" \in r.attrs /\ ~r.entities_is_none THEN r.entities ELSE <<>>

\* A reconcile that does not hand the prior clusters to the engine.
ExistingClustersDropped(r) == <<>>

\* existing_clusters = previous.clusters
ExistingClusters(r) == r.clusters

\* getattr(previous, "_feedback", None) or []
PrevFeedback(r) == IF "_feedback" \in r.attrs THEN r.feedback ELSE <<>>

\* ---------------------------------------------------------------- .knv files

\* ReconcileResult.save: the JSON document written.  Tuples are written as
\* JSON lists, FeedbackLabel objects as dicts.
SaveDoc(r) ==
    [version |-> 1,
     clusters |-> r.clusters,
     golden_records |-> r.golden_records,
     decisions |-> r.decisions,
     telemetry |-> r.telemetry,
     entity_map |-> IF "_entity_map" \in r.attrs
                    THEN [i \in DOMAIN r.entity_map |->
                             [r.entity_map[i] EXCEPT !.t = "list"]]
                    ELSE <<>>,
     trained_fs_params |-> GetTrainedFsParams(r),
     spec_hash |-> GetSpecHash(r),
     entities |-> IF "_entities" \in r.attrs THEN r.entities ELSE <<>>,
     entities_is_none |-> IF "_entities" \in r.attrs THEN r.entities_is_none ELSE TRUE,
     feedback |-> IF "_feedback" \in r.attrs
                  THEN [i \in DOMAIN r.feedback |-> LabelToDict(r.feedback[i])]
                  ELSE <<>>]

\* A load that leaves the entity_map values as the JSON lists they were read as.
LoadDocKeepLists(d) ==
    [clusters |-> d.clusters,
     golden_records |-> d.golden_records,
     decisions |-> d.decisions,
     telemetry |-> d.telemetry,
     attrs |-> AllAttrs,
     entity_map |-> d.entity_map,
     trained_fs_params |-> d.trained_fs_params,
     spec_hash |-> d.spec_hash,
     entities |-> d.entities,
     entities_is_none |-> d.entities_is_none,
     feedback |-> [i \in DOMAIN d.feedback |->
                      [d.feedback[i] EXCEPT !.cls = "FeedbackLabel"]]]

\* ReconcileResult.load: entity_map values back to tuples, feedback dicts
\* back to FeedbackLabel objects; every private attribute is set.
LoadDoc(d) ==
    [clusters |-> d.clusters,
     golden_records |-> d.golden_records,
     decisions |-> d.decisions,
     telemetry |-> d.telemetry,
     attrs |-> AllAttrs,
     entity_map |-> [i \in DOMAIN d.entity_map |->
                        [d.entity_map[i] EXCEPT !.t = "tuple"]],
     trained_fs_params |-> d.trained_fs_params,
     spec_hash |-> d.spec_hash,
     entities |-> d.entities,
     entities_is_none |-> d.entities_is_none,
     feedback |-> [i \in DOMAIN d.feedback |->
                      [d.feedback[i] EXCEPT !.cls = "FeedbackLabel"]]]

\* ---------------------------------------------------------------- reconcile

\* `previous` is <<>> for None and <<r>> for a result r.

\* A hash check that forgets that a previous result may store no hash.
SpecChangedNoNoneCheck(previous, current_spec_hash) ==
    /\ previous # <<>>
    /\ GetSpecHash(previous[1]) # current_spec_hash

\* reconcile step 5: the spec-hash check that decides on the warning.
SpecChanged(previous, current_spec_hash) ==
    /\ previous # <<>>
    /\ GetSpecHash(previous[1]) # None
    /\ GetSpecHash(previous[1]) # current_spec_hash

\* all_feedback: the previous result's labels, then the labels passed.
AllFeedback(previous, feedback) ==
    IF previous # <<>> THEN PrevFeedback(previous[1]) \o feedback ELSE feedback

\* reconcile step 10: the call made into the engine.
EngineCall(previous, all_entities, all_feedback) ==
    IF previous # <<>>
    THEN [fn |-> "reconcile_incremental",
          entities |-> all_entities,
          existing |-> ExistingEntities(previous[1]),
          clusters |-> ExistingClusters(previous[1]),
          trained_fs_params |-> GetTrainedFsParams(previous[1]),
          feedback |-> <<>>]
    ELSE IF all_feedback # <<>>
    THEN [fn |-> "reconcile_with_feedback",
          entities |-> all_entities,
          existing |-> <<>>,
          clusters |-> <<>>,
          trained_fs_params |-> None,
          feedback |-> [i \in DOMAIN all_feedback |-> LabelToDict(all_feedback[i])]]
    ELSE [fn |-> "reconcile_local",
          entities |-> all_entities,
          existing |-> <<>>,
          clusters |-> <<>>,
          trained_fs_params |-> None,
          feedback |-> <<>>]

\* reconcile steps 9-10: the ReconcileResult built from the engine's output.
BuildResult(previous, raw, all_entities, all_feedback, current_spec_hash) ==
    [clusters |-> raw.clusters,
     golden_records |-> raw.golden_records,
     decisions |-> raw.decisions,
     telemetry |-> raw.telemetry,
     attrs |-> AllAttrs,
     entity_map |-> IF previous # <<>>
                    THEN GetEntityMap(previous[1]) \o EntityMapOf(all_entities)
                    ELSE EntityMapOf(all_entities),
     trained_fs_params |-> raw.trained_fs_params,
     spec_hash |-> current_spec_hash,
     entities |-> IF previous # <<>>
                  THEN ExistingEntities(previous[1]) \o all_entities
                  ELSE all_entities,
     entities_is_none |-> FALSE,
     feedback |-> all_feedback]

\* The time of the next to_entities call.
Now == 2 * Len(res) + 1

\* reconcile steps 3-10, once the pre-flight check has passed.
ReconcileRun(B, sp, shape, fb, k, viaFile, sources, src_warnings) ==
    \E previous \in {IF k = 0 THEN <<>>
                     ELSE IF viaFile THEN <<LoadDoc(file[1].doc)>>
                     ELSE <<res[k]>>} :
    \E all_entities \in {CollectEntities(B, sources, usePk, shape,
                                         AttrMaps(sp.sources, <<>>), nextId, Now)} :
    \E all_feedback \in {AllFeedback(previous, fb)} :
    \E call \in {EngineCall(previous, all_entities, all_feedback)} :
    \E raw \in {Engine(call)} :
        /\ res' = Append(res, BuildResult(previous, raw, all_entities, all_feedback, sp.hash))
        /\ calls' = Append(calls,
              [op |-> "reconcile", rows |-> B, spec_hash |-> sp.hash,
               sources |-> sp.sources, shape |-> shape, feedback |-> fb,
               previous |-> k, via_file |-> viaFile,
               source_warnings |-> src_warnings,
               warned |-> SpecChanged(previous, sp.hash),
               all_feedback |-> all_feedback, engine |-> call,
               outcome |-> "returned"])
        /\ nextId' = nextId + Len(all_entities)
        /\ UNCHANGED raised

\* reconcile(sources, spec, previous, feedback): the sources yield the rows B
\* in columns named as `shape` says, the spec is sp, previous is None (k = 0),
\* the result res[k], or the path of the .knv file (viaFile).  Step 2 raises
\* ValueError("Source-spec mismatch: ...") when the pre-flight check finds
\* errors; nothing has been ingested by then.
Reconcile(B, sp, shape, fb, k, viaFile) ==
    /\ Len(res) < MaxRuns
    /\ viaFile => (file # <<>> /\ file[1].origin = k)
    /\ \E sources \in {Supplied(B)} :
       \E check \in {ValidateSourceAttributes(sources, shape, sp.sources)} :
           IF check.errors # <<>>
           THEN /\ raised' = <<[rows |-> B, sources |-> sp.sources, shape |-> shape,
                                errors |-> check.errors]>>
                /\ UNCHANGED <<res, calls, nextId>>
           ELSE ReconcileRun(B, sp, shape, fb, k, viaFile, sources, check.warnings)
    /\ UNCHANGED <<file, log, usePk, ev, cloudVars, httpVars, dbtVars>>

\* A caller constructs an empty ReconcileResult directly.
Construct ==
    /\ Len(res) < MaxRuns
    /\ res' = Append(res, BareResult(<<>>, <<>>, <<>>, <<>>))
    /\ calls' = Append(calls,
          [op |-> "construct", rows |-> {}, spec_hash |-> None,
           sources |-> <<>>, shape |-> "plain", feedback |-> <<>>,
           previous |-> 0, via_file |-> FALSE, source_warnings |-> <<>>, warned |-> FALSE,
           all_feedback |-> <<>>, engine |-> [fn |-> "none"],
           outcome |-> "returned"])
    /\ UNCHANGED <<file, log, usePk, nextId, raised, ev, cloudVars, httpVars, dbtVars>>

\* res[k].save(path)
Save(k) ==
    /\ k \in DOMAIN res
    /\ file' = <<[origin |-> k, doc |-> SaveDoc(res[k])]>>
    /\ UNCHANGED <<res, calls, log, usePk, nextId, raised, ev, cloudVars, httpVars, dbtVars>>

\* ---------------------------------------------------------------- changelog
\* changelog.py.  A sorted list of distinct tuples is kept as the set it lists.

\* The empty kanoniv_id "".
EmptyKid == {}

\* uuid_to_kid.get(uuid, ""): the kanoniv_id of the last cluster, among those
\* aligned with a golden record, that lists the uuid.
UuidToKid(r, uuid) ==
    LET idx == {i \in DOMAIN r.clusters :
                   i <= Len(r.golden_records) /\ uuid \in Range(r.clusters[i])}
    IN  IF idx = {} THEN EmptyKid ELSE r.golden_records[Max(idx)].kanoniv_id

RECURSIVE SourceToKanoniv(_, _, _)
SourceToKanoniv(r, items, lookup) ==
    IF items = <<>> THEN lookup
    ELSE LET kid == UuidToKid(r, Head(items).id)
         IN  SourceToKanoniv(r, Tail(items),
                 IF kid # EmptyKid THEN DictPut(lookup, Head(items).v, kid) ELSE lookup)

\* _build_source_to_kanoniv: (source_system, source_id) -> kanoniv_id
BuildSourceToKanoniv(r) == SourceToKanoniv(r, GetEntityMap(r), <<>>)

RECURSIVE KanonivToSources(_, _)
KanonivToSources(items, result) ==
    IF items = <<>> THEN result
    ELSE LET kid == Head(items).v
             old == IF DictHas(result, kid) THEN DictGet(result, kid) ELSE {}
         IN  KanonivToSources(Tail(items), DictPut(result, kid, old \cup {Head(items).k}))

\* _build_kanoniv_to_sources: kanoniv_id -> set of (source_system, source_id)
BuildKanonivToSources(lookup) == KanonivToSources(lookup, <<>>)

EntityChange(kid, type, members, new, prev_kids) ==
    [kanoniv_id |-> kid, change_type |-> type, source_records |-> members,
     new_records |-> new, previous_kanoniv_ids |-> prev_kids]

\* The previous entities the existing members of a current entity come from.
PrevKidsOf(curr_members, prev_lookup) ==
    {DictGet(prev_lookup, m) : m \in {x \in curr_members : DictHas(prev_lookup, x)}}

\* A current-side analysis that reports every member of a grown entity as
\* a new record.
CurrentChangeAllNew(curr_kid, curr_members, prev_lookup) ==
    LET new_records == {m \in curr_members : ~DictHas(prev_lookup, m)}
        existing_records == {m \in curr_members : DictHas(prev_lookup, m)}
        prev_kids == PrevKidsOf(curr_members, prev_lookup)
    IN  IF existing_records = {}
        THEN EntityChange(curr_kid, "created", curr_members, new_records, {})
        ELSE IF Cardinality(prev_kids) > 1
        THEN EntityChange(curr_kid, "merged", curr_members, new_records, prev_kids)
        ELSE IF new_records # {}
        THEN EntityChange(curr_kid, "grown", curr_members, curr_members, prev_kids)
        ELSE EntityChange(curr_kid, "unchanged", curr_members, {}, {})

\* A current-side analysis that tests for new records before it tests for
\* several previous entities.
CurrentChangeGrownFirst(curr_kid, curr_members, prev_lookup) ==
    LET new_records == {m \in curr_members : ~DictHas(prev_lookup, m)}
        existing_records == {m \in curr_members : DictHas(prev_lookup, m)}
        prev_kids == PrevKidsOf(curr_members, prev_lookup)
    IN  IF existing_records = {}
        THEN EntityChange(curr_kid, "created", curr_members, new_records, {})
        ELSE IF new_records # {}
        THEN EntityChange(curr_kid, "grown", curr_members, new_records, prev_kids)
        ELSE IF Cardinality(prev_kids) > 1
        THEN EntityChange(curr_kid, "merged", curr_members, new_records, prev_kids)
        ELSE EntityChange(curr_kid, "unchanged", curr_members, {}, {})

\* _compute_changes, current-side analysis of one current entity.
CurrentChange(curr_kid, curr_members, prev_lookup) ==
    LET new_records == {m \in curr_members : ~DictHas(prev_lookup, m)}
        existing_records == {m \in curr_members : DictHas(prev_lookup, m)}
        prev_kids == PrevKidsOf(curr_members, prev_lookup)
    IN  IF existing_records = {}
        THEN EntityChange(curr_kid, "created", curr_members, new_records, {})
        ELSE IF Cardinality(prev_kids) > 1
        THEN EntityChange(curr_kid, "merged", curr_members, new_records, prev_kids)
        ELSE IF new_records # {}
        THEN EntityChange(curr_kid, "grown", curr_members, new_records, prev_kids)
        ELSE EntityChange(curr_kid, "unchanged", curr_members, {}, {})

\* A previous-side analysis that reports a split as soon as one member is
\* found in the current result.
PreviousChangeSplitOnOne(prev_kid, prev_members, prev_kids_seen, curr_lookup) ==
    LET curr_kids_for_members ==
            {DictGet(curr_lookup, m) : m \in {x \in prev_members : DictHas(curr_lookup, x)}}
    IN  IF prev_kid \notin prev_kids_seen
        THEN EntityChange(prev_kid, "removed", prev_members, {}, {})
        ELSE IF Cardinality(curr_kids_for_members) > 0
        THEN EntityChange(prev_kid, "split", prev_members, {}, curr_kids_for_members)
        ELSE EntityChange(prev_kid, "none", prev_members, {}, {})

\* _compute_changes, previous-side analysis of one previous entity.
PreviousChange(prev_kid, prev_members, prev_kids_seen, curr_lookup) ==
    LET curr_kids_for_members ==
            {DictGet(curr_lookup, m) : m \in {x \in prev_members : DictHas(curr_lookup, x)}}
    IN  IF prev_kid \notin prev_kids_seen
        THEN EntityChange(prev_kid, "removed", prev_members, {}, {})
        ELSE IF Cardinality(curr_kids_for_members) > 1
        THEN EntityChange(prev_kid, "split", prev_members, {}, curr_kids_for_members)
        ELSE EntityChange(prev_kid, "none", prev_members, {}, {})

IsChange(c) == c.change_type \notin {"unchanged", "none"}

IsUnchanged(c) == c.change_type = "unchanged"

\* _compute_changes(previous, current): the ChangeLog.
ComputeChanges(previous, current) ==
    LET prev_lookup == BuildSourceToKanoniv(previous)
        curr_lookup == BuildSourceToKanoniv(current)
        prev_entities == BuildKanonivToSources(prev_lookup)
        curr_entities == BuildKanonivToSources(curr_lookup)
        curr_side == [i \in DOMAIN curr_entities |->
                        CurrentChange(curr_entities[i].k, curr_entities[i].v, prev_lookup)] \o <<>>
        prev_kids_seen == UNION {PrevKidsOf(curr_entities[i].v, prev_lookup) :
                                    i \in DOMAIN curr_entities}
        prev_side == [i \in DOMAIN prev_entities |->
                        PreviousChange(prev_entities[i].k, prev_entities[i].v,
                                       prev_kids_seen, curr_lookup)] \o <<>>
    IN  [changes |-> SelectSeq(curr_side, IsChange) \o SelectSeq(prev_side, IsChange),
         unchanged_count |-> Len(SelectSeq(curr_side, IsUnchanged))]

\* res[j].changes_since(res[i])
ChangesSince(i, j) ==
    /\ i \in DOMAIN res
    /\ j \in DOMAIN res
    /\ \E cl \in {ComputeChanges(res[i], res[j])} :
          log' = <<[previous |-> i, current |-> j, changes |-> cl.changes,
                    unchanged_count |-> cl.unchanged_count]>>
    /\ UNCHANGED <<res, calls, file, usePk, nextId, raised, ev, cloudVars, httpVars, dbtVars>>

\* ---------------------------------------------------------------- evaluate
\* evaluate.py.  A float that is a ratio of two counts is kept as the reduced
\* fraction <<numerator, denominator>>.

Fraction(n, d) ==
    LET g == Max({k \in 1..d : n % k = 0 /\ d % k = 0})
    IN  <<n \div g, d \div g>>

RECURSIVE SumLen(_)
\* sum(len(c) for c in clusters)
SumLen(clusters) ==
    IF clusters = <<>> THEN 0 ELSE Len(Head(clusters)) + SumLen(Tail(clusters))

\* A merge rate that is the ratio of clusters to records.
MergeRateClustersPerRecord(r) ==
    LET total == SumLen(r.clusters)
    IN  IF total = 0 THEN Fraction(0, 1)
        ELSE Fraction(Len(r.clusters), total)

\* ReconcileResult.merge_rate
MergeRate(r) ==
    LET total == SumLen(r.clusters)
    IN  IF total = 0 THEN Fraction(0, 1)
        ELSE Fraction(total - Len(r.clusters), total)

RECURSIVE ClusterSizeDistribution(_, _)
\* _cluster_size_distribution: dist[size] = dist.get(size, 0) + 1
ClusterSizeDistribution(clusters, dist) ==
    IF clusters = <<>> THEN dist
    ELSE LET size == Len(Head(clusters))
             old == IF DictHas(dist, size) THEN DictGet(dist, size) ELSE 0
         IN  ClusterSizeDistribution(Tail(clusters), DictPut(dist, size, old + 1))

\* A ground-truth record id is a Python str or int; both are kept as
\* <<type, n>>, and the str of either is the model's external id n.
PyStr(x) == x[2]

\* One ground-truth member (source_name, record id).
Member(s, r) == [s |-> s, r |-> r]

\* _parse_ground_truth, dict format: the member sets with two or more
\* distinct (str(s), str(r)), in the order of the dict.
ParseGroundTruth(ground_truth) ==
    LET sets == [e \in DOMAIN ground_truth |->
                    {<<ground_truth[e][n].s, PyStr(ground_truth[e][n].r)>> :
                        n \in DOMAIN ground_truth[e]}]
        Big(c) == Cardinality(c) >= 2
    IN  SelectSeq(sets, Big)

\* _clusters_from_result: the clusters as sets of (source_name, external_id),
\* those with two or more members.
ClustersFromResult(r, entity_map) ==
    LET sets == [c \in DOMAIN r.clusters |->
                    {entity_map[n].v :
                        n \in {x \in DOMAIN entity_map :
                                  entity_map[x].id \in Range(r.clusters[c])}}]
        Big(c) == Cardinality(c) >= 2
    IN  SelectSeq(sets, Big)

\* _pairs_from_clusters: the unordered pairs of members of a cluster.
PairsFromClusters(clusters) ==
    UNION {{{a, b} : <<a, b>> \in {p \in clusters[c] \X clusters[c] : p[1] # p[2]}} :
              c \in DOMAIN clusters}

\* A filter that keeps the predicted pairs of every record the labels name,
\* also of those whose true entity has one record only.
GroundTruthRecordsAll(ground_truth) ==
    UNION {{<<ground_truth[e][n].s, PyStr(ground_truth[e][n].r)>> :
               n \in DOMAIN ground_truth[e]} : e \in DOMAIN ground_truth}

\* _evaluate: gt_records, the records of the parsed ground-truth clusters.
GroundTruthRecords(ground_truth) ==
    LET gt_clusters == ParseGroundTruth(ground_truth)
    IN  UNION {gt_clusters[c] : c \in DOMAIN gt_clusters}

\* _evaluate, layer 3.
GroundTruthMetrics(r, ground_truth) ==
    LET predicted_clusters == ClustersFromResult(r, r.entity_map)
        gt_clusters == ParseGroundTruth(ground_truth)
        gt_records == GroundTruthRecords(ground_truth)
        filtered == [c \in DOMAIN predicted_clusters |-> predicted_clusters[c] \cap gt_records]
        Big(c) == Cardinality(c) >= 2
        predicted_pairs == PairsFromClusters(SelectSeq(filtered, Big))
        gt_pairs == PairsFromClusters(gt_clusters)
        tp == Cardinality(predicted_pairs \cap gt_pairs)
        fp == Cardinality(predicted_pairs \ gt_pairs)
        fn == Cardinality(gt_pairs \ predicted_pairs)
    IN  [precision |-> IF tp + fp > 0 THEN Fraction(tp, tp + fp) ELSE Fraction(1, 1),
         recall |-> IF tp + fn > 0 THEN Fraction(tp, tp + fn) ELSE Fraction(1, 1),
         true_positives |-> tp, false_positives |-> fp, false_negatives |-> fn,
         predicted_pairs |-> Cardinality(predicted_pairs),
         ground_truth_pairs |-> Cardinality(gt_pairs),
         ground_truth_clusters |-> Len(gt_clusters)]

\* _evaluate, layer 1.
StructuralMetrics(r) ==
    LET total_records == SumLen(r.clusters)
        total_clusters == Len(r.clusters)
        IsSingleton(c) == Len(c) = 1
    IN  [total_records |-> total_records,
         total_clusters |-> total_clusters,
         merge_rate |-> IF total_records > 0
                        THEN Fraction(total_records - total_clusters, total_records)
                        ELSE Fraction(0, 1),
         singletons |-> Len(SelectSeq(r.clusters, IsSingleton)),
         largest_cluster |-> IF r.clusters = <<>> THEN 0
                             ELSE Max({Len(r.clusters[c]) : c \in DOMAIN r.clusters}),
         cluster_distribution |-> ClusterSizeDistribution(r.clusters, <<>>)]

\* result.evaluate(ground_truth): ground_truth is <<>> for None and <<gt>> for
\* a dict gt.  With ground truth, a result without _entity_map raises
\* ValueError.
Evaluate(i, ground_truth) ==
    /\ i \in DOMAIN res
    /\ ev' = <<[result |-> i, ground_truth |-> ground_truth,
                structural |-> StructuralMetrics(res[i]),
                outcome |-> IF ground_truth # <<>> /\ "_entity_map" \notin res[i].attrs
                            THEN "ValueError" ELSE "returned",
                layer3 |-> IF ground_truth # <<>> /\ "_entity_map" \in res[i].attrs
                           THEN <<GroundTruthMetrics(res[i], ground_truth[1])>>
                           ELSE <<>>]>>
    /\ UNCHANGED <<res, calls, file, log, usePk, nextId, raised, cloudVars, httpVars, dbtVars>>

\* ------------------------------------- HTTP transport (client/_transport.py)

\* Requests made through one client.
MaxRequests == 2

DEFAULT_MAX_RETRIES == 2

\* _STATUS_MAP, as the insertion-ordered sequence of its items.
STATUS_MAP ==
    <<[k |-> 400, v |-> "ValidationError"], [k |-> 401, v |-> "AuthenticationError"],
      [k |-> 403, v |-> "ForbiddenError"], [k |-> 404, v |-> "NotFoundError"],
      [k |-> 409, v |-> "ConflictError"], [k |-> 429, v |-> "RateLimitError"]>>

RETRYABLE == {408, 429, 502, 503, 504}

\* No client has been made.
NoHttp ==
    [pc |-> "none", api_key |-> None, access_token |-> None, headers |-> {},
     max_retries |-> 0, attempt |-> 0, requests |-> 0, sent |-> <<>>,
     response |-> <<>>, outcome |-> <<>>, request |-> <<>>, wire |-> <<>>,
     made |-> 0, last |-> <<>>]

\* Python truthiness of an optional string.
Truthy(s) == s # None /\ s # ""

\* A variant of _build_auth_headers that sends every credential it is given.
BuildAuthHeadersBoth(api_key, access_token) ==
    (IF Truthy(api_key) THEN {[name |-> "X-API-Key", value |-> <<api_key>>]} ELSE {})
    \cup (IF Truthy(access_token)
          THEN {[name |-> "Authorization", value |-> <<"Bearer ", access_token>>]}
          ELSE {})

\* _build_auth_headers: the headers dict as the set of its items; the value
\* of Authorization is the string "Bearer " followed by the token.
BuildAuthHeaders(api_key, access_token) ==
    IF Truthy(api_key) THEN {[name |-> "X-API-Key", value |-> <<api_key>>]}
    ELSE IF Truthy(access_token)
         THEN {[name |-> "Authorization", value |-> <<"Bearer ", access_token>>]}
         ELSE {}

\* float(s) for the header values the server sends: a number of seconds, or a
\* ValueError for a string that is no number (an HTTP-date, say).
ParseFloat(s) ==
    CASE s = "0" -> [ok |-> TRUE, value |-> 0]
      [] s = "5" -> [ok |-> TRUE, value |-> 5]
      [] s = "-1" -> [ok |-> TRUE, value |-> -1]
      [] OTHER -> [ok |-> FALSE, value |-> 0]

\* response.is_success
IsSuccess(status) == 200 <= status /\ status <= 299

\* What a request returns or raises.  An optional value is <<>> for None and
\* <<x>> for x.
Returned(value) ==
    [kind |-> "return", cls |-> None, status_code |-> <<>>, body |-> <<>>,
     retry_after |-> <<>>, value |-> value]

Raised(cls, status_code, body, retry_after) ==
    [kind |-> "raise", cls |-> cls, status_code |-> status_code, body |-> body,
     retry_after |-> retry_after, value |-> <<>>]

\* float(retry_after) if retry_after else None
RetryAfterOf(retry_after) ==
    IF Truthy(retry_after)
    THEN [ok |-> ParseFloat(retry_after).ok, value |-> <<ParseFloat(retry_after).value>>]
    ELSE [ok |-> TRUE, value |-> <<>>]

\* _raise_for_status: <<>> for a successful response, else the exception
\* raised; the exception of a 429 is built after float(retry_after), whose
\* ValueError escapes.
RaiseForStatus(response) ==
    LET status == response.status
    IN  IF IsSuccess(status) THEN <<>>
        ELSE IF status = 429
        THEN LET retry_after == RetryAfterOf(response.retry_after)
             IN  IF retry_after.ok
                 THEN <<Raised("RateLimitError", <<status>>, <<response.body>>,
                               retry_after.value)>>
                 ELSE <<Raised("ValueError", <<>>, <<>>, <<>>)>>
        ELSE LET exc_cls == IF DictHas(STATUS_MAP, status) THEN DictGet(STATUS_MAP, status)
                            ELSE IF status >= 500 THEN "ServerError" ELSE "KanonivError"
             IN  <<Raised(exc_cls, <<status>>, <<response.body>>, <<>>)>>

\* SyncTransport.__init__ / AsyncTransport.__init__: the httpx client is made
\* with the credential headers, which it then sends with every request.
NewTransport(api_key, access_token, max_retries) ==
    /\ http.pc = "none"
    /\ http' = [http EXCEPT !.pc = "open", !.api_key = api_key,
                            !.access_token = access_token,
                            !.headers = BuildAuthHeaders(api_key, access_token),
                            !.max_retries = max_retries]
    /\ UNCHANGED <<localVars, cloudVars, dbtVars>>

\* What a client method hands to request(): the method, the path (the pieces
\* of the string in order) and the JSON body.
HttpRequest(method, path, json) == [method |-> method, path |-> path, json |-> json]

\* request(method, path, ...) is entered: the loop starts with attempt 0;
\* over an empty range (max_retries below 0) it is skipped and the statement
\* after it raises.
StartRequest(h, request) ==
    LET entered == [h EXCEPT !.attempt = 0, !.requests = @ + 1, !.response = <<>>,
                             !.outcome = <<>>, !.request = <<request>>,
                             !.wire = <<>>, !.made = 0, !.last = <<>>]
    IN  IF 1 + h.max_retries > 0 THEN [entered EXCEPT !.pc = "attempt"]
        ELSE [entered EXCEPT !.pc = "done",
                             !.outcome = <<Raised("KanonivError", <<>>, <<>>, <<>>)>>]

\* client.stats(): request("GET", "/v1/stats").
Request ==
    /\ http.pc \in {"open", "done"}
    /\ http.requests < MaxRequests
    /\ http' = StartRequest(http, HttpRequest("GET", <<"/v1/stats">>, <<>>))
    /\ UNCHANGED <<localVars, cloudVars, dbtVars>>

\* A variant of IngestRequest that posts to the per-source webhook endpoint.
IngestRequestWebhook(source_name, records, entity_type) ==
    HttpRequest("POST", <<"/v1/ingest/webhook/", source_name>>, <<records>>)

\* KanonivClient.ingest and AsyncKanonivClient.ingest, which hold the same
\* statement: the batch endpoint, the source name inside the body.
IngestRequest(source_name, records, entity_type) ==
    HttpRequest("POST", <<"/v1/ingest/batch">>,
                <<[source_name |-> source_name, entity_type |-> entity_type,
                   entities |-> records]>>)

\* client.ingest(source_name, records, entity_type=...)
ClientIngest(source_name, records, entity_type) ==
    /\ http.pc \in {"open", "done"}
    /\ http.requests < MaxRequests
    /\ http' = StartRequest(http, IngestRequest(source_name, records, entity_type))
    /\ UNCHANGED <<localVars, cloudVars, dbtVars>>

\* A variant of RetryResponse that also retries a 500.
RetryResponseAnd500(status, attempt, max_retries) ==
    status \in RETRYABLE \cup {500} /\ attempt < max_retries

\* response.status_code in _RETRYABLE and attempt < self._max_retries
RetryResponse(status, attempt, max_retries) ==
    status \in RETRYABLE /\ attempt < max_retries

\* The except clause: ConnectError and ReadTimeout are caught, and retried
\* while attempt < self._max_retries.
Caught == {"ConnectError", "ReadTimeout"}

RetryError(attempt, max_retries) == attempt < max_retries

\* _get_backoff, in half seconds: the Retry-After header if it is a number,
\* else 0.5 * 2**attempt.
GetBackoff(attempt, response) ==
    IF Truthy(response.retry_after) /\ ParseFloat(response.retry_after).ok
    THEN 2 * ParseFloat(response.retry_after).value
    ELSE 2 ^ attempt

\* The attempt goes out with the client's headers; what came back last and
\* the number of attempts of the request are noted.
Attempted(h, event) ==
    [h EXCEPT !.sent = Append(@, h.headers), !.wire = Append(@, h.request[1]),
              !.made = @ + 1, !.last = <<event>>]

\* One attempt that brings back a response: a retryable status is retried
\* while attempts are left, after _backoff (time.sleep raises ValueError for
\* a negative number of seconds); any other response ends the request.
Respond(response) ==
    /\ http.pc = "attempt"
    /\ LET h == Attempted(http, [kind |-> "response", status |-> response.status])
           exc == RaiseForStatus(response)
       IN  http' =
               IF RetryResponse(response.status, http.attempt, http.max_retries)
               THEN IF GetBackoff(http.attempt, response) < 0
                    THEN [h EXCEPT !.pc = "done", !.response = <<response>>,
                                   !.outcome = <<Raised("ValueError", <<>>, <<>>, <<>>)>>]
                    ELSE [h EXCEPT !.attempt = @ + 1]
               ELSE [h EXCEPT !.pc = "done", !.response = <<response>>,
                              !.outcome =
                                  IF exc # <<>> THEN exc
                                  ELSE IF response.status = 204 THEN <<Returned(<<>>)>>
                                  ELSE <<Returned(<<response.body>>)>>]
    /\ UNCHANGED <<localVars, cloudVars, dbtVars>>

\* One attempt that ends in httpx.ConnectError or httpx.ReadTimeout, or in an
\* httpx exception the loop does not catch.
TransportError(exc) ==
    /\ http.pc = "attempt"
    /\ LET h == Attempted(http, [kind |-> exc, status |-> 0])
       IN  http' =
               IF exc \notin Caught
               THEN [h EXCEPT !.pc = "done", !.outcome = <<Raised(exc, <<>>, <<>>, <<>>)>>]
               ELSE IF RetryError(http.attempt, http.max_retries)
               THEN [h EXCEPT !.attempt = @ + 1]
               ELSE [h EXCEPT !.pc = "done",
                              !.outcome = <<Raised("KanonivError", <<>>, <<>>, <<>>)>>]
    /\ UNCHANGED <<localVars, cloudVars, dbtVars>>

\* ------------------------------------------------- cloud reconcile (cloud.py)

\* Upper end of the monotonic clock; later readings are not told apart.
MaxClock == 5

\* Records per ingest request.
BATCH_SIZE == 500

Terminal == {"completed", "failed", "cancelled"}

\* The states of a job on the server, and how a job moves between them.
JobStatuses == {"pending", "running"} \cup Terminal

JobNext(status) ==
    CASE status = "pending" -> {"running", "cancelled"}
      [] status = "running" -> Terminal
      [] OTHER -> {}

\* No cloud reconcile call has been made.
IdleCloud ==
    [pc |-> "idle", resume |-> FALSE, owns_client |-> FALSE, rows |-> {},
     todo |-> <<>>, job_id |-> None, poll_interval |-> 0, timeout |-> 0,
     deadline |-> -1, status |-> None, first |-> <<>>, reads |-> <<>>,
     outcome |-> None, max_retries |-> 0, attempt |-> 0,
     sources |-> <<>>, shape |-> "plain", raised_in |-> None,
     own_client_open |-> FALSE, closed |-> FALSE]

Polling == {"poll_check", "poll_sleep", "poll_read"}

\* One request received by the API server.
ServerCall(op, arg) == [op |-> op, arg |-> arg]

\* The clients a caller can pass: one made with the default max_retries and
\* one made with max_retries=0.
Clients == {"client", "client-no-retries"}

\* _build_client: the client passed in, or one made from the api_key with
\* Client(api_key=api_key, base_url=base_url), that is with the default
\* max_retries.
BuildClient(client, api_key) ==
    IF client # None
    THEN [error |-> None, owns_client |-> FALSE,
          max_retries |-> IF client = "client-no-retries" THEN 0 ELSE DEFAULT_MAX_RETRIES]
    ELSE IF api_key = None
    THEN [error |-> "ValueError", owns_client |-> FALSE, max_retries |-> 0]
    ELSE [error |-> None, owns_client |-> TRUE, max_retries |-> DEFAULT_MAX_RETRIES]

\* A variant of AfterClient that uploads whether or not a job is resumed.
AfterClientAlwaysUploads(resume_job_id) == "upload_spec"

\* The branch reconcile takes once it has a client: with resume_job_id it only
\* reads that job, without it the JSON path starts with the spec upload.  (The
\* Arrow fast path needs warehouse-backed sources; the sources here are
\* in-memory.)
AfterClient(resume_job_id) ==
    IF resume_job_id # None THEN "resume_read" ELSE "upload_spec"

\* A variant of Expired that gives up at the deadline itself.
ExpiredAtDeadline(now, deadline) == now >= deadline

\* time.monotonic() > deadline
Expired(now, deadline) == now > deadline

\* time.sleep(seconds) seen on the clock.
Sleep(now, seconds) == IF now + seconds > MaxClock THEN MaxClock ELSE now + seconds

\* canonical = reverse_map.get(col, col)
CloudCanonical(col, reverse_map) ==
    IF DictHas(reverse_map, col) THEN DictGet(reverse_map, col) ELSE col

\* reconcile step 4, the loop over raw_data.items(): mapped[canonical] = val
\* for every column in order.
CloudMapData(raw_data, shape, reverse_map) ==
    LET cols == Columns(shape)
        LastFor(n) == Max({i \in DOMAIN cols : CloudCanonical(cols[i], reverse_map) = n})
    IN  [n \in {CloudCanonical(cols[i], reverse_map) : i \in DOMAIN cols} |->
            raw_data[cols[LastFor(n)]]]

\* A variant of Chunks whose slices hold one record more than asked for.
RECURSIVE ChunksOneMore(_, _)
ChunksOneMore(entities, n) ==
    IF entities = <<>> THEN <<>>
    ELSE IF Len(entities) <= n + 1 THEN <<entities>>
    ELSE <<SubSeq(entities, 1, n + 1)>>
         \o ChunksOneMore(SubSeq(entities, n + 2, Len(entities)), n)

RECURSIVE Chunks(_, _)
\* entities[i : i + n] for i in range(0, len(entities), n)
Chunks(entities, n) ==
    IF entities = <<>> THEN <<>>
    ELSE IF Len(entities) <= n THEN <<entities>>
    ELSE <<SubSeq(entities, 1, n)>> \o Chunks(SubSeq(entities, n + 1, Len(entities)), n)

\* reconcile step 4 for one source, before batching: the records of its
\* entities, each an external_id and its data, the data mapped when the spec
\* declares attribute mappings for the source.
CloudRecords(B, name, pk, shape, attr_maps) ==
    LET entities == ToEntities(name, SourceRows(B, name), pk, shape, 1, 1)
        reverse_map == IF DictHas(attr_maps, name) THEN DictGet(attr_maps, name) ELSE <<>>
    IN  [i \in DOMAIN entities |->
            [external_id |-> entities[i].external_id,
             data |-> IF reverse_map = <<>> THEN entities[i].data
                      ELSE CloudMapData(entities[i].data, shape, reverse_map)]] \o <<>>

\* reconcile step 4 for one source: one ingest request per batch of its
\* records.
IngestRequests(B, name, pk, shape, attr_maps) ==
    LET batches == Chunks(CloudRecords(B, name, pk, shape, attr_maps), BATCH_SIZE)
    IN  [i \in DOMAIN batches |->
            ServerCall("ingest", [source |-> name, batch |-> batches[i]])] \o <<>>

RECURSIVE IngestPlan(_, _, _, _, _)
IngestPlan(B, names, pk, shape, attr_maps) ==
    IF names = <<>> THEN <<>>
    ELSE IngestRequests(B, Head(names), pk, shape, attr_maps)
         \o IngestPlan(B, Tail(names), pk, shape, attr_maps)

\* reconcile step 3.5: one sources.create request per source.
CreatePlan(names) ==
    [i \in DOMAIN names |-> ServerCall("sources.create", names[i])] \o <<>>

\* The end of a call: what it returned or raised.
Finish(c, outcome) == [c EXCEPT !.pc = "done", !.outcome = outcome]

\* _poll_job starts: deadline = time.monotonic() + timeout, status = "pending".
StartPoll(c, job_id, now) ==
    [c EXCEPT !.pc = "poll_check", !.job_id = job_id,
              !.deadline = now + c.timeout, !.status = "pending"]

\* job.get("status", default) for a job response that shows `shown`.
StatusOf(shown, default) == IF shown = "missing" THEN default ELSE shown

\* What a status read of the job can bring back: the job with its status, a
\* job without a status, or an error of the transport or of the server.
Responses(job) == {job, "missing", "error"}

\* cloud.reconcile(sources, spec, client=, api_key=, poll_interval=, timeout=,
\* resume_job_id=) is called with sources of the given shape; job is the state
\* of the named job when resuming.
CloudReconcile(B, sp, shape, client, api_key, poll_interval, timeout, resume_job_id, job) ==
    /\ cloud.pc = "idle"
    /\ (resume_job_id = None) = (job = None)
    /\ LET built == BuildClient(client, api_key)
           c == [cloud EXCEPT !.rows = B, !.sources = sp.sources, !.shape = shape,
                              !.resume = (resume_job_id # None),
                              !.job_id = resume_job_id,
                              !.owns_client = built.owns_client,
                              !.own_client_open = built.owns_client,
                              !.max_retries = built.max_retries,
                              !.poll_interval = poll_interval, !.timeout = timeout]
       IN  IF built.error # None
           THEN /\ cloud' = Finish(c, built.error)
                /\ UNCHANGED server
           ELSE /\ cloud' = [c EXCEPT !.pc = AfterClient(resume_job_id)]
                /\ server' = [server EXCEPT !.job = job]
    /\ UNCHANGED <<clock, localVars, httpVars, dbtVars>>

\* fetch_result(job_id, client=, api_key=, poll_interval=, timeout=) is
\* called; job is the state of the named job.
FetchResult(client, api_key, poll_interval, timeout, job) ==
    /\ cloud.pc = "idle"
    /\ job # None
    /\ LET built == BuildClient(client, api_key)
           c == [cloud EXCEPT !.resume = TRUE, !.job_id = "job-1",
                              !.owns_client = built.owns_client,
                              !.own_client_open = built.owns_client,
                              !.max_retries = built.max_retries,
                              !.poll_interval = poll_interval, !.timeout = timeout]
       IN  IF built.error # None
           THEN /\ cloud' = Finish(c, built.error)
                /\ UNCHANGED server
           ELSE /\ cloud' = [c EXCEPT !.pc = "resume_read"]
                /\ server' = [server EXCEPT !.job = job]
    /\ UNCHANGED <<clock, localVars, httpVars, dbtVars>>

\* CloudReconcileResult.close(), also run by the context exit: the client is
\* closed if the result owns it.
ResultClose ==
    /\ cloud.pc = "done"
    /\ cloud.outcome = "returned"
    /\ ~cloud.closed
    /\ cloud' = [cloud EXCEPT !.closed = TRUE,
                              !.own_client_open = IF cloud.owns_client THEN FALSE ELSE @]
    /\ UNCHANGED <<clock, server, localVars, httpVars, dbtVars>>

\* Step 1.5 of reconcile and the first statements of fetch_result: the first
\* status read of the job to resume.
ResumeRead(shown) ==
    /\ cloud.pc = "resume_read"
    /\ shown \in Responses(server.job)
    /\ server' = [server EXCEPT !.calls = Append(@, ServerCall("jobs.get", cloud.job_id))]
    /\ LET status == StatusOf(shown, "pending")
           c == [cloud EXCEPT !.first = <<[at |-> clock, shows |-> shown]>>]
       IN  cloud' =
               IF shown = "error" THEN Finish(cloud, "KanonivError")
               ELSE IF status = "completed" THEN Finish(c, "returned")
               ELSE IF status \in {"failed", "cancelled"} THEN Finish(c, "RuntimeError")
               ELSE StartPoll(c, cloud.job_id, clock)
    /\ UNCHANGED <<clock, localVars, httpVars, dbtVars>>

\* How a call of the client ends: with the server's answer, or by raising a
\* KanonivError once the transport has given up.
CallResults == {"ok", "raise"}

\* The request the server has received when a call ends: every call that is
\* answered, none of those that raise.
Received(srv, call, result) ==
    IF result = "ok" THEN [srv EXCEPT !.calls = Append(@, call)] ELSE srv

\* A call of reconcile raises out of the named step.
RaiseIn(c, step) == [Finish(c, "KanonivError") EXCEPT !.raised_in = step]

\* Step 2: client.specs.ingest(spec.raw, compile=True), which may raise; step
\* 3.5 is then laid out request by request.
UploadSpec(result) ==
    /\ cloud.pc = "upload_spec"
    /\ result \in CallResults
    /\ server' = Received(server, ServerCall("specs.ingest", "spec"), result)
    /\ cloud' = IF result = "raise" THEN RaiseIn(cloud, "upload_spec")
                ELSE [cloud EXCEPT !.pc = "create_sources",
                                   !.todo = CreatePlan(Supplied(cloud.rows))]
    /\ UNCHANGED <<clock, localVars, httpVars, dbtVars>>

\* Step 3.5, one source: client.sources.create, whose failure is ignored;
\* after the last one step 4 is laid out batch by batch.
CreateSource(result) ==
    /\ cloud.pc = "create_sources"
    /\ cloud.todo # <<>>
    /\ result \in CallResults
    /\ server' = Received(server, Head(cloud.todo), result)
    /\ cloud' = IF Tail(cloud.todo) # <<>> THEN [cloud EXCEPT !.todo = Tail(@)]
                ELSE [cloud EXCEPT !.pc = "ingest",
                                   !.todo = IngestPlan(cloud.rows, Supplied(cloud.rows), usePk,
                                                       cloud.shape,
                                                       AttrMaps(cloud.sources, <<>>))]
    /\ UNCHANGED <<clock, localVars, httpVars, dbtVars>>

\* Step 4, one batch: client.ingest(source.name, batch), which may raise.
IngestBatch(result) ==
    /\ cloud.pc = "ingest"
    /\ cloud.todo # <<>>
    /\ result \in CallResults
    /\ server' = Received(server, Head(cloud.todo), result)
    /\ cloud' = IF result = "raise" THEN RaiseIn(cloud, "ingest")
                ELSE IF Tail(cloud.todo) # <<>> THEN [cloud EXCEPT !.todo = Tail(@)]
                ELSE [cloud EXCEPT !.pc = "submit", !.todo = <<>>]
    /\ UNCHANGED <<clock, localVars, httpVars, dbtVars>>

\* What an attempt of the job-submission POST can bring back, and whether the
\* server can have acted on the POST: it has when it answers 200, it has not
\* when the connection failed, and either is possible when the read timed out
\* or a gateway answered 502, 503 or 504.
SubmitEvents ==
    {[kind |-> "response", status |-> st] : st \in {200, 502, 503, 504}}
    \cup {[kind |-> k, status |-> 0] : k \in Caught}

CanReach(event, reached) ==
    /\ event.kind = "response" /\ event.status = 200 => reached
    /\ event.kind = "ConnectError" => ~reached

\* The server acts on a POST /v1/jobs/run: it starts a reconciliation job.
RunJob(srv) ==
    [srv EXCEPT !.calls = Append(@, ServerCall("jobs.run", "reconciliation")),
                !.jobs = @ + 1]

\* Steps 5 and 6, one attempt of client.jobs.run("reconciliation") in the
\* transport's loop: a 200 names the new job and _poll_job starts; a
\* retryable failure is retried while attempts are left; the last one is
\* raised.
SubmitJob(event, reached) ==
    /\ cloud.pc = "submit"
    /\ event \in SubmitEvents
    /\ CanReach(event, reached)
    /\ LET srv == IF reached THEN RunJob(server) ELSE server
       IN  IF event.kind = "response" /\ event.status = 200
           THEN /\ server' = [srv EXCEPT !.job = "pending"]
                /\ cloud' = StartPoll(cloud, "job-2", clock)
           ELSE /\ server' = srv
                /\ cloud' =
                       IF event.kind = "response"
                       THEN IF RetryResponse(event.status, cloud.attempt, cloud.max_retries)
                            THEN [cloud EXCEPT !.attempt = @ + 1]
                            ELSE Finish(cloud, "ServerError")
                       ELSE IF RetryError(cloud.attempt, cloud.max_retries)
                            THEN [cloud EXCEPT !.attempt = @ + 1]
                            ELSE Finish(cloud, "KanonivError")
    /\ UNCHANGED <<clock, localVars, httpVars, dbtVars>>

\* _poll_job, the loop condition and the deadline check, then what follows the
\* loop.
PollCheck ==
    /\ cloud.pc = "poll_check"
    /\ cloud' =
           IF cloud.status \notin Terminal
           THEN IF Expired(clock, cloud.deadline) THEN Finish(cloud, "TimeoutError")
                ELSE [cloud EXCEPT !.pc = "poll_sleep"]
           ELSE IF cloud.status \in {"failed", "cancelled"} THEN Finish(cloud, "RuntimeError")
           ELSE Finish(cloud, "returned")
    /\ UNCHANGED <<clock, server, localVars, httpVars, dbtVars>>

\* _poll_job: time.sleep(poll_interval)
PollSleep ==
    /\ cloud.pc = "poll_sleep"
    /\ clock' = Sleep(clock, cloud.poll_interval)
    /\ cloud' = [cloud EXCEPT !.pc = "poll_read"]
    /\ UNCHANGED <<server, localVars, httpVars, dbtVars>>

\* _poll_job: job = client.jobs.get(job_id); status = job.get("status", status)
PollRead(shown) ==
    /\ cloud.pc = "poll_read"
    /\ shown \in Responses(server.job)
    /\ server' = [server EXCEPT !.calls = Append(@, ServerCall("jobs.get", cloud.job_id))]
    /\ cloud' =
           IF shown = "error" THEN Finish(cloud, "KanonivError")
           ELSE [cloud EXCEPT !.pc = "poll_check",
                              !.reads = Append(@, [at |-> clock, shows |-> shown]),
                              !.status = StatusOf(shown, @)]
    /\ UNCHANGED <<clock, localVars, httpVars, dbtVars>>

\* Time passes while _poll_job runs.
Tick ==
    /\ cloud.pc \in Polling
    /\ clock < MaxClock
    /\ clock' = clock + 1
    /\ UNCHANGED <<cloud, server, localVars, httpVars, dbtVars>>

\* The server works on the job while the call runs.
JobAdvance(status) ==
    /\ cloud.pc \notin {"idle", "done"}
    /\ server.job # None
    /\ status \in JobNext(server.job)
    /\ server' = [server EXCEPT !.job = status]
    /\ UNCHANGED <<cloud, clock, localVars, httpVars, dbtVars>>

\* ------------------- dbt-sql example pipeline (dbt-sql/calculate_metrics.py)

\* Records of the spine; record ids are compared as LEAST and MIN compare
\* them, here as integers.
MaxRecords == 8

\* The last of the label-propagation passes pass_0 .. pass_5.
LAST_PASS == 5

Records == 1..MaxRecords

\* No table of the pipeline has been created.
NoTables == [pc |-> "spine", scoring |-> {}, clusters |-> <<>>]

\* The CTE matches: every scored pair in both directions.
Matches(scoring) == scoring \cup {<<pair[2], pair[1]>> : pair \in scoring}

\* The records joined to node by matches.
Matched(node, matches) == {pair[2] : pair \in {q \in matches : q[1] = node}}

\* pass_0: LEAST(record_id, COALESCE(MIN(m.v), record_id)) per spine record.
Pass0(matches) ==
    [node \in Records |-> Min({node} \cup Matched(node, matches))]

\* pass_n from pass_(n-1): LEAST(MIN(p.cluster_id),
\* COALESCE(MIN(p2.cluster_id), MIN(p.cluster_id))) per node.
NextPass(prev, matches) ==
    [node \in Records |->
        Min({prev[node]} \cup {prev[v] : v \in Matched(node, matches)})]

RECURSIVE Passes(_, _, _)
\* pass_n .. pass_5, given pass_n.
Passes(n, prev, matches) ==
    IF n >= LAST_PASS THEN prev ELSE Passes(n + 1, NextPass(prev, matches), matches)

\* Step 3: int_identity__scoring is created; it holds the pairs of records
\* (record_a < record_b, as blocking makes them) that scored 4.0 or more.
Scoring(pairs) ==
    /\ dbt.pc = "spine"
    /\ \A pair \in pairs : pair[1] \in Records /\ pair[2] \in Records /\ pair[1] < pair[2]
    /\ dbt' = [dbt EXCEPT !.pc = "scoring", !.scoring = pairs]
    /\ UNCHANGED <<localVars, cloudVars, httpVars>>

\* Step 4: int_identity__clusters is created; resolved_entity_id is the
\* cluster_id of pass_5.
Clustering ==
    /\ dbt.pc = "scoring"
    /\ LET matches == Matches(dbt.scoring)
       IN  dbt' = [dbt EXCEPT !.pc = "clusters",
                              !.clusters = Passes(0, Pass0(matches), matches)]
    /\ UNCHANGED <<localVars, cloudVars, httpVars>>

\* ------------------------------------------------------- specifications

Init ==
    /\ res = <<>>
    /\ calls = <<>>
    /\ file = <<>>
    /\ log = <<>>
    /\ usePk \in BOOLEAN
    /\ nextId = 1
    /\ raised = <<>>
    /\ ev = <<>>
    /\ cloud = IdleCloud
    /\ clock = 0
    /\ server = [calls |-> <<>>, job |-> None, jobs |-> 0]
    /\ http = NoHttp
    /\ dbt = NoTables

\* Chains of reconcile calls: full runs and incremental runs against any
\* earlier result, over every non-empty batch of rows and every feedback.
Batches == SUBSET RowIds \ {{}}

Next ==
    \E B \in Batches, fb \in FeedbackChoices :
        \E k \in 0..Len(res) : Reconcile(B, PlainSpec("h1"), "plain", fb, k, FALSE)

Spec == Init /\ [][Next]_vars

\* Persistence and spec versions: reconcile under either spec, from a result
\* or from its .knv file, directly constructed results, and save.
FileBatches == {{1}, {2, 3}}

FileFeedback == {<<>>, <<FeedbackLabel(1, 2, "crm", "crm", "no_match")>>}

InitFile == Init /\ usePk = TRUE

NextFile ==
    \/ \E B \in FileBatches, h \in SpecHashes, fb \in FileFeedback :
         \E k \in 0..Len(res), viaFile \in BOOLEAN :
             Reconcile(B, PlainSpec(h), "plain", fb, k, viaFile)
    \/ Construct
    \/ \E k \in DOMAIN res : Save(k)

SpecFile == InitFile /\ [][NextFile]_vars

\* Ingest under specs with attribute mappings.  MappedSources maps the crm
\* columns id and TOKS and the web column toks; CrmOnly declares only crm;
\* BadCrmOnly declares only crm and maps columns that no shape has;
\* SharedColumnSources maps two canonical attributes of crm to column id.
Attr(canonical, source_col) == [k |-> canonical, v |-> source_col]

MappedSources ==
    <<SourceDecl("crm", <<Attr("key", "id"), Attr("toks", "TOKS")>>),
      SourceDecl("web", <<Attr("toks", "toks")>>)>>

SharedColumnSources ==
    <<SourceDecl("crm", <<Attr("key", "id"), Attr("ident", "id"), Attr("toks", "toks")>>),
      SourceDecl("web", <<Attr("toks", "toks")>>)>>

CrmOnly == <<SourceDecl("crm", <<>>)>>

BadCrmOnly == <<SourceDecl("crm", <<Attr("name", "fullname"), Attr("toks", "tok")>>)>>

IngestSpecs ==
    {[hash |-> "h1", sources |-> d] :
        d \in {PlainSources, MappedSources, CrmOnly, BadCrmOnly}}

IngestBatches == {{1}, {2, 3}}

InitIngest == Init /\ usePk = TRUE

NextIngest ==
    \E B \in IngestBatches, sp \in IngestSpecs, shape \in Shapes :
        \E k \in 0..Len(res) : Reconcile(B, sp, shape, <<>>, k, FALSE)

SpecIngest == InitIngest /\ [][NextIngest]_vars

\* Ingest under a spec that maps two canonical attributes to one column, and
\* under one without mappings.
SharedSpecs ==
    {[hash |-> "h1", sources |-> d] : d \in {PlainSources, SharedColumnSources}}

NextShared ==
    \E B \in IngestBatches, sp \in SharedSpecs, shape \in Shapes :
        \E k \in 0..Len(res) : Reconcile(B, sp, shape, <<>>, k, FALSE)

SpecShared == InitIngest /\ [][NextShared]_vars

\* Evaluation of results of full and incremental runs and of directly
\* constructed results, without ground truth and with one of GroundTruths.
PyS(n) == <<"str", n>>

PyI(n) == <<"int", n>>

\* Ground-truth dicts, as the sequence of their values: the true entities
\* {crm 1, crm 2} and {web 3}; {crm 1, crm 2} and {web 3, web 9}; one entity
\* of all three rows, one id given as an int; {crm 2} named twice and
\* {crm 1, web 3}.
GroundTruths ==
    { << <<Member("crm", PyS(1)), Member("crm", PyS(2))>>, <<Member("web", PyS(3))>> >>,
      << <<Member("crm", PyS(1)), Member("crm", PyS(2))>>,
         <<Member("web", PyS(3)), Member("web", PyS(9))>> >>,
      << <<Member("crm", PyI(1)), Member("crm", PyS(2)), Member("web", PyS(3))>> >>,
      << <<Member("crm", PyS(2)), Member("crm", PyI(2))>>,
         <<Member("crm", PyS(1)), Member("web", PyS(3))>> >> }

EvalBatches == {{1, 2}, {1, 3}, {1, 2, 3}}

EvalFeedback == {<<>>, <<FeedbackLabel(1, 3, "crm", "web", "no_match")>>}

InitEval == Init /\ usePk = TRUE

NextEval ==
    \/ \E B \in EvalBatches, fb \in EvalFeedback :
          \E k \in 0..Len(res) : Reconcile(B, PlainSpec("h1"), "plain", fb, k, FALSE)
    \/ Construct
    \/ \E i \in DOMAIN res : \E gt \in {<<>>} \cup {<<g>> : g \in GroundTruths} :
          Evaluate(i, gt)

SpecEval == InitEval /\ [][NextEval]_vars

\* Changelogs between any two results of a chain of reconcile calls.
ChangeBatches == (Batches \ {{1}, {2, 3}}) \cup {{1, 2, 4}}

NextChanges ==
    \/ \E B \in ChangeBatches : \E k \in 0..Len(res) :
          Reconcile(B, PlainSpec("h1"), "plain", <<>>, k, FALSE)
    \/ \E i, j \in DOMAIN res : ChangesSince(i, j)

SpecChanges == Init /\ [][NextChanges]_vars

\* One cloud reconcile call, fresh or resuming a job in any state, with a
\* client or an api_key or neither, while time passes and the server works on
\* the job.  The call itself keeps running: a sleep ends, a status read comes
\* back (with a job or an error) and the loop goes on to its next statement.
Timeouts == {0, 2}

PollIntervals == {1, 2}

CloudBatches == {{1, 2}}

Shown == JobStatuses \cup {"missing", "error"}

\* Cloud reconcile calls up to the job submission, for sources of every
\* shape, specs with and without attribute mappings, and a source of two rows
\* and one of two full batches and one record (row 3 is web's, the others are
\* crm's).
UploadBatches == {{1, 2, 3}, 1..(2 * BATCH_SIZE + 2)}

UploadSpecs == {[hash |-> "h1", sources |-> d] : d \in {PlainSources, MappedSources}}

NextUpload ==
    \/ \E B \in UploadBatches, sp \in UploadSpecs, shape \in Shapes,
          client \in {"client-no-retries"}, api_key \in {None} :
          CloudReconcile(B, sp, shape, client, api_key, 1, 1, None, None)
    \/ \E result \in CallResults : UploadSpec(result)
    \/ \E result \in CallResults : CreateSource(result)
    \/ \E result \in CallResults : IngestBatch(result)
    \/ \E event \in SubmitEvents, reached \in BOOLEAN : SubmitJob(event, reached)

InitUpload == Init /\ usePk = TRUE

SpecUpload == InitUpload /\ [][NextUpload]_vars

InitCloud == Init /\ usePk = TRUE

NextCloud ==
    \/ \E B \in CloudBatches, client \in {None, "client-no-retries"},
          api_key \in {None, "key"}, poll_interval \in PollIntervals, timeout \in Timeouts,
          resume_job_id \in {None, "job-1"}, job \in JobStatuses \cup {None} :
          CloudReconcile(B, PlainSpec("h1"), "plain", client, api_key, poll_interval,
                         timeout, resume_job_id, job)
    \/ \E client \in {None}, api_key \in {None, "key"}, poll_interval \in {1},
          timeout \in {1}, job \in {"running", "completed"} :
          FetchResult(client, api_key, poll_interval, timeout, job)
    \/ ResultClose
    \/ \E shown \in Shown : ResumeRead(shown)
    \/ \E result \in CallResults : UploadSpec(result)
    \/ \E result \in CallResults : CreateSource(result)
    \/ \E result \in CallResults : IngestBatch(result)
    \/ \E event \in SubmitEvents, reached \in BOOLEAN : SubmitJob(event, reached)
    \/ PollCheck
    \/ PollSleep
    \/ \E shown \in Shown : PollRead(shown)
    \/ Tick
    \/ \E status \in JobStatuses : JobAdvance(status)

SpecCloud ==
    /\ InitCloud
    /\ [][NextCloud]_vars
    /\ WF_vars(PollCheck)
    /\ WF_vars(PollSleep)
    /\ WF_vars(\E shown \in Shown : PollRead(shown))

\* Requests of one client, made with any combination of credentials and of
\* retries, answered by any response or by a transport error.
Statuses == {200, 204, 302, 400, 401, 403, 404, 408, 409, 422, 429, 500, 502, 503, 504}

RetryAfterHeaders == {None, "", "0", "5", "-1", "Wed, 21 Oct 2015 07:28:00 GMT"}

\* response.json() of a JSON body, response.text of any other.
Bodies == {"json", "text"}

HttpResponses ==
    {r \in [status : Statuses, retry_after : RetryAfterHeaders, body : Bodies] :
        r.status = 429 \/ r.retry_after = None}

ApiKeys == {None, "", "kn_key"}

AccessTokens == {None, "", "eyJ_token"}

MaxRetries == {-1, 0, 1, DEFAULT_MAX_RETRIES}

\* Exceptions of an attempt: the two the loop catches and one it does not.
HttpxErrors == Caught \cup {"WriteTimeout"}

\* records=[{"id": "a"}, {"id": "b"}] and records=[{"id": "a"}]
IngestRecords == {<<[id |-> "a"], [id |-> "b"]>>, <<[id |-> "a"]>>}

NextHttp ==
    \/ \E api_key \in ApiKeys, access_token \in AccessTokens, max_retries \in MaxRetries :
          NewTransport(api_key, access_token, max_retries)
    \/ Request
    \/ \E source_name \in {"src-1"}, records \in IngestRecords,
          entity_type \in {"entity"} :
          ClientIngest(source_name, records, entity_type)
    \/ \E response \in HttpResponses : Respond(response)
    \/ \E exc \in HttpxErrors : TransportError(exc)

InitHttp == Init /\ usePk = TRUE

SpecHttp == InitHttp /\ [][NextHttp]_vars

\* The same requests, each attempt of which ends: the server answers, or the
\* httpx client gives up after its timeout.
AttemptEnds ==
    \/ \E response \in HttpResponses : Respond(response)
    \/ \E exc \in HttpxErrors : TransportError(exc)

SpecHttpLive == InitHttp /\ [][NextHttp]_vars /\ WF_vars(AttemptEnds)

\* The example pipeline over match graphs made of links between neighbouring
\* records and of one link across, in every combination.
CandidatePairsOfExample ==
    {<<i, i + 1>> : i \in 1..(MaxRecords - 1)} \cup {<<2, 5>>}

NextExample ==
    \/ \E pairs \in SUBSET CandidatePairsOfExample : Scoring(pairs)
    \/ Clustering

SpecExample == Init /\ [][NextExample]_vars

\* ---------------------------------------------------------------- claims

ReconcileCalls == {i \in DOMAIN calls : calls[i].op = "reconcile"}

IncrementalCalls == {i \in ReconcileCalls : calls[i].previous # 0}

InSameCluster(r, a, b) ==
    \E c \in DOMAIN r.clusters : {a, b} \subseteq Range(r.clusters[c])

\* The hash a result stores, None when it stores none.
StoredHash(r) == IF "_spec_hash" \in r.attrs THEN r.spec_hash ELSE None

\* C3: a reconcile call warns exactly when it is given a previous result
\* whose stored spec hash is set and differs from the current spec's hash;
\* a call that warns still runs the incremental engine and returns a result
\* that stores the current hash.
C3_SpecHashWarning ==
    \A i \in ReconcileCalls :
        LET c == calls[i]
            stored == IF c.previous = 0 THEN None ELSE StoredHash(res[c.previous])
        IN  /\ c.warned <=> (c.previous # 0 /\ stored # None /\ stored # c.spec_hash)
            /\ c.warned =>
                 /\ c.outcome = "returned"
                 /\ c.engine.fn = "reconcile_incremental"
                 /\ res[i].spec_hash = c.spec_hash
                 /\ res[i].clusters = Engine(c.engine).clusters

\* A call warned about a changed spec and returned its incremental result.
C3_Witness ==
    \E i \in IncrementalCalls :
        /\ calls[i].warned
        /\ calls[i].outcome = "returned"
        /\ res[i].clusters # <<>>

\* C4: two records labelled no_match by the feedback in effect for a run
\* never share a cluster of that run's result.
C4_NoMatchNeverClustered ==
    \A i \in ReconcileCalls : \A n \in DOMAIN res[i].feedback :
        LET l == res[i].feedback[n]
        IN  l.label = "no_match" =>
              \A a, b \in Range(res[i].entities) :
                  ( /\ Key(a) = <<l.source_a, l.entity_a_id>>
                    /\ Key(b) = <<l.source_b, l.entity_b_id>> )
                  => ~InSameCluster(res[i], a.id, b.id)

\* C5: whenever feedback labels are in effect for a reconcile call, the
\* labelled pairs are handed to the engine in that call.
C5_FeedbackHandedToEngine ==
    \A i \in ReconcileCalls :
        calls[i].all_feedback # <<>> =>
            calls[i].engine.feedback =
                [n \in DOMAIN calls[i].all_feedback |-> LabelToDict(calls[i].all_feedback[n])]

\* One full reconcile of the rows B under the feedback fb.
FullRun(B, h, fb) ==
    LET ents == CollectEntities(B, Supplied(B), usePk, "plain", <<>>, 1, 1)
    IN  BuildResult(<<>>, Engine(EngineCall(<<>>, ents, fb)), ents, fb, h)

\* The partition of the rows that a result's clusters induce.
RowClusters(r) ==
    {{EntityById(r.entities, r.clusters[c][m]).data.id : m \in DOMAIN r.clusters[c]} :
        c \in DOMAIN r.clusters}

KanonivIds(r) == {r.golden_records[g].kanoniv_id : g \in DOMAIN r.golden_records}

\* C6: a full run on R0 followed by an incremental run on R1 partitions the
\* rows like one full run on R0 + R1 (and, with primary keys, yields golden
\* records with the same kanoniv ids).
C6_IncrementalEquivalence ==
    \A j \in IncrementalCalls :
        LET k == calls[j].previous
            full == FullRun(calls[k].rows \cup calls[j].rows, calls[j].spec_hash,
                            calls[j].all_feedback)
        IN  ( /\ calls[k].op = "reconcile"
              /\ calls[k].previous = 0
              /\ calls[k].rows \cap calls[j].rows = {}
              /\ calls[k].spec_hash = calls[j].spec_hash )
            => /\ RowClusters(res[j]) = RowClusters(full)
               /\ usePk => KanonivIds(res[j]) = KanonivIds(full)

\* The places (cluster, position) at which a record id occurs in clusters.
Occurrences(clusters, id) ==
    UNION {{<<d, m>> : m \in {n \in DOMAIN clusters[d] : clusters[d][n] = id}} :
              d \in DOMAIN clusters}

\* C7: an incremental run only extends the previous clustering: every
\* previous cluster lies within one cluster of the result, and every previous
\* and every new record is in exactly one cluster, once.
C7_IncrementalExtends ==
    \A j \in IncrementalCalls :
        LET prev == res[calls[j].previous]
            new  == calls[j].engine.entities
            out  == res[j].clusters
        IN  /\ \A c \in DOMAIN prev.clusters :
                  \E d \in DOMAIN out : Range(prev.clusters[c]) \subseteq Range(out[d])
            /\ \A id \in IdsOf(ExistingEntities(prev)) \cup IdsOf(new) :
                  Cardinality(Occurrences(out, id)) = 1

\* An incremental run in which a new record joined a previous cluster of two.
C7_Witness ==
    \E j \in IncrementalCalls :
        \E c \in DOMAIN res[calls[j].previous].clusters, d \in DOMAIN res[j].clusters :
            /\ Len(res[calls[j].previous].clusters[c]) >= 2
            /\ Range(res[calls[j].previous].clusters[c]) \subseteq Range(res[j].clusters[d])
            /\ Len(res[j].clusters[d]) > Len(res[calls[j].previous].clusters[c])

\* What reconcile and the result's accessors read of a result.
ResultView(r) ==
    [clusters |-> r.clusters, golden_records |-> r.golden_records,
     decisions |-> r.decisions, telemetry |-> r.telemetry,
     entity_map |-> GetEntityMap(r), trained_fs_params |-> GetTrainedFsParams(r),
     spec_hash |-> GetSpecHash(r), entities |-> ExistingEntities(r),
     feedback |-> PrevFeedback(r)]

\* C8: loading a saved result gives back a result equal to the saved one in
\* every field, and an incremental reconcile from the file hands the engine
\* the inputs it would get from the saved result itself.
C8_SaveLoadLossless ==
    /\ file # <<>> =>
          ResultView(LoadDoc(file[1].doc)) = ResultView(res[file[1].origin])
    /\ \A i \in IncrementalCalls :
          calls[i].via_file =>
              LET orig == res[calls[i].previous]
              IN  /\ calls[i].engine.existing = ExistingEntities(orig)
                  /\ calls[i].engine.clusters = orig.clusters
                  /\ calls[i].engine.trained_fs_params = GetTrainedFsParams(orig)
                  /\ calls[i].all_feedback = PrevFeedback(orig) \o calls[i].feedback
                  /\ res[i].entity_map =
                        GetEntityMap(orig) \o EntityMapOf(calls[i].engine.entities)

\* A result with records and feedback labels was saved, and an incremental
\* run was made from the file.
C8_Witness ==
    /\ file # <<>>
    /\ \E i \in IncrementalCalls :
          /\ calls[i].via_file
          /\ res[calls[i].previous].entity_map # <<>>
          /\ res[calls[i].previous].feedback # <<>>

\* C9: two reconcile runs given the same spec, rows and feedback (and the
\* same previous result) return identical clusters, golden records,
\* decisions and telemetry.
C9_Determinism ==
    \A i, j \in ReconcileCalls :
        ( /\ calls[i].rows = calls[j].rows
          /\ calls[i].spec_hash = calls[j].spec_hash
          /\ calls[i].feedback = calls[j].feedback
          /\ calls[i].previous = calls[j].previous )
        => /\ res[i].clusters = res[j].clusters
           /\ res[i].golden_records = res[j].golden_records
           /\ res[i].decisions = res[j].decisions
           /\ res[i].telemetry = res[j].telemetry

\* C10: in every result no two distinct record ids of the entity map, or of
\* the stored records, carry the same (source_name, external_id).
C10_UniqueSourceKey ==
    \A i \in ReconcileCalls :
        /\ \A m, n \in DOMAIN res[i].entity_map :
              res[i].entity_map[m].id # res[i].entity_map[n].id
                  => res[i].entity_map[m].v # res[i].entity_map[n].v
        /\ \A a, b \in Range(res[i].entities) : a.id # b.id => Key(a) # Key(b)

\* The kanoniv_id a source record is mapped to in a result: that of the last
\* entity-map entry with this (source_name, external_id) whose record is in
\* a cluster with a golden record.
MappedEntries(r, key) ==
    {i \in DOMAIN GetEntityMap(r) :
        GetEntityMap(r)[i].v = key /\ UuidToKid(r, GetEntityMap(r)[i].id) # EmptyKid}

Mapped(r) == {key \in {GetEntityMap(r)[i].v : i \in DOMAIN GetEntityMap(r)} :
                 MappedEntries(r, key) # {}}

MappedKid(r, key) == UuidToKid(r, GetEntityMap(r)[Max(MappedEntries(r, key))].id)

EntitiesOf(r) == {MappedKid(r, key) : key \in Mapped(r)}

MembersOf(r, kid) == {key \in Mapped(r) : MappedKid(r, key) = kid}

LogPrev == res[log[1].previous]

LogCurr == res[log[1].current]

\* The entries of the changelog about entity kid with one of the given types.
Reported(kid, types) ==
    {n \in DOMAIN log[1].changes :
        log[1].changes[n].kanoniv_id = kid /\ log[1].changes[n].change_type \in types}

CurrentTypes == {"created", "merged", "grown"}

PreviousTypes == {"removed", "split"}

\* C1: every current entity is classified by where its members come from:
\* created iff none existed before, merged iff the pre-existing ones come
\* from two or more previous entities, grown iff they come from exactly one
\* and there is a new record; at most one of these is reported per entity,
\* and only current entities are reported so.
C1_CurrentClassification ==
    log # <<>> =>
        /\ \A K \in EntitiesOf(LogCurr) :
              LET members == MembersOf(LogCurr, K)
                  old == members \cap Mapped(LogPrev)
                  from == {MappedKid(LogPrev, m) : m \in old}
                  types == {log[1].changes[n].change_type : n \in Reported(K, CurrentTypes)}
              IN  /\ "created" \in types <=> old = {}
                  /\ "merged" \in types <=> Cardinality(from) >= 2
                  /\ "grown" \in types <=> (Cardinality(from) = 1 /\ members \ old # {})
                  /\ Cardinality(Reported(K, CurrentTypes)) <= 1
        /\ \A n \in DOMAIN log[1].changes :
              log[1].changes[n].change_type \in CurrentTypes
                  => log[1].changes[n].kanoniv_id \in EntitiesOf(LogCurr)

\* A changelog reports an entity merged from two previous entities that also
\* took in a new record.
C1_Witness ==
    /\ log # <<>>
    /\ \E n \in DOMAIN log[1].changes :
          /\ log[1].changes[n].change_type = "merged"
          /\ log[1].changes[n].new_records # {}

\* C2: every previous entity is reported removed iff none of its members is
\* present in the current result, and split iff its members present in the
\* current result belong to two or more current entities; never both, never
\* more than once.
C2_PreviousClassification ==
    log # <<>> =>
        /\ \A P \in EntitiesOf(LogPrev) :
              LET present == MembersOf(LogPrev, P) \cap Mapped(LogCurr)
                  into == {MappedKid(LogCurr, m) : m \in present}
                  types == {log[1].changes[n].change_type : n \in Reported(P, PreviousTypes)}
              IN  /\ "removed" \in types <=> present = {}
                  /\ "split" \in types <=> Cardinality(into) >= 2
                  /\ Cardinality(Reported(P, PreviousTypes)) <= 1
        /\ \A n \in DOMAIN log[1].changes :
              log[1].changes[n].change_type \in PreviousTypes
                  => log[1].changes[n].kanoniv_id \in EntitiesOf(LogPrev)

\* A changelog reports a previous entity split over two current entities.
C2_Witness ==
    /\ log # <<>>
    /\ \E n \in DOMAIN log[1].changes :
          /\ log[1].changes[n].change_type = "split"
          /\ Cardinality(log[1].changes[n].previous_kanoniv_ids) >= 2

\* Full reconcile calls: no previous result.
FullCalls == {i \in ReconcileCalls : calls[i].previous = 0}

\* The (source_name, external_id) a result's stored records give to row r.
RowKeys(r, row) == {Key(e) : e \in {x \in Range(r.entities) : x.data.id = row}}

\* The rows of a cluster of a result.
ClusterRows(r, c) ==
    {EntityById(r.entities, r.clusters[c][m]).data.id : m \in DOMAIN r.clusters[c]}

\* C11: two full runs over the same source rows give every row the same
\* (source_name, external_id), and clusters with the same rows get the same
\* kanoniv_id in both runs, with or without a primary key.
C11_KanonivIdStable ==
    \A i, j \in FullCalls :
        calls[i].rows = calls[j].rows =>
            /\ \A row \in calls[i].rows : RowKeys(res[i], row) = RowKeys(res[j], row)
            /\ \A c \in DOMAIN res[i].clusters, d \in DOMAIN res[j].clusters :
                  ClusterRows(res[i], c) = ClusterRows(res[j], d)
                      => res[i].golden_records[c].kanoniv_id =
                         res[j].golden_records[d].kanoniv_id

\* The same statement for sources created with a primary key only.
C11_StableWithPrimaryKey == usePk => C11_KanonivIdStable

\* Two full runs over the same rows of sources with a primary key.
C11_PkWitness ==
    /\ usePk
    /\ \E i, j \in FullCalls :
          i # j /\ calls[i].rows = calls[j].rows /\ Cardinality(calls[i].rows) >= 2

\* The declaration of source `name` in a spec's sources.
DeclOf(spec_sources, name) ==
    spec_sources[CHOOSE i \in DOMAIN spec_sources : spec_sources[i].name = name]

CanonicalNames(decl) == {decl.attributes[n].k : n \in DOMAIN decl.attributes}

\* C12: for a source with attribute mappings, the data of every record
\* handed to the engine holds each mapped column under its canonical name
\* and holds canonical attribute names only.
C12_OnlyCanonicalNames ==
    \A i \in ReconcileCalls : \A e \in Range(calls[i].engine.entities) :
        LET decl == DeclOf(calls[i].sources, e.source_name)
            cols == Range(Columns(calls[i].shape))
        IN  decl.attributes # <<>> =>
              /\ \A n \in DOMAIN decl.attributes :
                    (\E c \in cols : Lower(c) = Lower(decl.attributes[n].v))
                        => decl.attributes[n].k \in DOMAIN e.data
              /\ DOMAIN e.data \subseteq CanonicalNames(decl)

\* The problems of a reconcile call: a supplied source the spec does not
\* declare, or a mapped source column that equals no actual column of its
\* source when case is ignored.
Problems(B, spec_sources, shape) ==
    LET supplied == Range(Supplied(B))
        declared == {spec_sources[i].name : i \in DOMAIN spec_sources}
    IN  {<<"not in spec", name, "">> : name \in supplied \ declared}
        \cup
        UNION {{<<"not found", name, a.v>> :
                   a \in {x \in Range(DeclOf(spec_sources, name).attributes) :
                             \A c \in Range(Columns(shape)) : Lower(c) # Lower(x.v)}} :
                 name \in supplied \cap declared}

ErrorsListed(errors) == {<<errors[n].kind, errors[n].source, errors[n].column>> : n \in DOMAIN errors}

\* C13: reconcile raises the source-spec mismatch error iff the call has a
\* problem; the error lists every problem of every source; raising leaves
\* the results, the engine calls and the record ids drawn untouched.
C13_SourceSpecMismatch ==
    /\ [](/\ \A i \in ReconcileCalls :
                Problems(calls[i].rows, calls[i].sources, calls[i].shape) = {}
          /\ raised # <<>> =>
                /\ ErrorsListed(raised[1].errors) =
                      Problems(raised[1].rows, raised[1].sources, raised[1].shape)
                /\ raised[1].errors # <<>>)
    /\ [][raised' # raised => (res' = res /\ calls' = calls /\ nextId' = nextId)]_vars

\* An error was raised that lists problems of two sources.
C13_Witness ==
    /\ raised # <<>>
    /\ Cardinality({raised[1].errors[n].source : n \in DOMAIN raised[1].errors}) >= 2
    /\ Cardinality({raised[1].errors[n].kind : n \in DOMAIN raised[1].errors}) >= 2

\* The result an evaluation was made of, and its ground truth.
EvResult == res[ev[1].result]

EvTruth == ev[1].ground_truth[1]

\* Two source records share a predicted cluster of result r.
SharePredicted(r, a, b) ==
    \E c \in DOMAIN r.clusters : \E m, n \in DOMAIN r.entity_map :
        /\ r.entity_map[m].v = a
        /\ r.entity_map[n].v = b
        /\ {r.entity_map[m].id, r.entity_map[n].id} \subseteq Range(r.clusters[c])

\* The true entities of a ground truth, as sets of (source_name, record id).
TrueEntities(gt) ==
    {{<<gt[e][n].s, PyStr(gt[e][n].r)>> : n \in DOMAIN gt[e]} : e \in DOMAIN gt}

SameTrue(gt, a, b) == \E E \in TrueEntities(gt) : {a, b} \subseteq E

\* The records the ground truth lists.
Listed(gt) == UNION TrueEntities(gt)

\* The records of true entities with two or more records.
Paired(gt) == UNION {E \in TrueEntities(gt) : Cardinality(E) >= 2}

PairsOver(S) == {{a, b} : <<a, b>> \in {p \in S \X S : p[1] # p[2]}}

ResultKeys(r) == {r.entity_map[n].v : n \in DOMAIN r.entity_map}

\* The pair counts when the pairs counted are those of the records in scope.
CountsOver(r, gt, scope) ==
    LET counted == {p \in PairsOver(ResultKeys(r) \cap scope) :
                       \E a, b \in p : a # b /\ SharePredicted(r, a, b)}
        truePairs == {p \in PairsOver(Listed(gt)) : \E a, b \in p : a # b /\ SameTrue(gt, a, b)}
    IN  [true_positives |-> Cardinality(counted \cap truePairs),
         false_positives |-> Cardinality(counted \ truePairs),
         false_negatives |-> Cardinality({p \in truePairs :
                                 \A a, b \in p : a # b => ~SharePredicted(r, a, b)})]

CountsReported ==
    [true_positives |-> ev[1].layer3[1].true_positives,
     false_positives |-> ev[1].layer3[1].false_positives,
     false_negatives |-> ev[1].layer3[1].false_negatives]

RECURSIVE WeightedSum(_)
\* Sum of size * count over the items of a size distribution.
WeightedSum(dist) ==
    IF dist = <<>> THEN 0 ELSE Head(dist).k * Head(dist).v + WeightedSum(Tail(dist))

RECURSIVE CountSum(_)
CountSum(dist) == IF dist = <<>> THEN 0 ELSE Head(dist).v + CountSum(Tail(dist))

\* The (cluster, position) places of a list of clusters.
Places(clusters) == UNION {{<<c, n>> : n \in DOMAIN clusters[c]} : c \in DOMAIN clusters}

\* C15: the structural metrics agree with the clusters, and the merge rate
\* of the evaluation is that of the result.
C15_StructuralMetrics ==
    ev # <<>> =>
        LET m == ev[1].structural
            cl == EvResult.clusters
            records == Cardinality(Places(cl))
            dist == m.cluster_distribution
        IN  /\ m.total_records = records
            /\ m.total_clusters = Len(cl)
            /\ m.singletons = Cardinality({c \in DOMAIN cl : Len(cl[c]) = 1})
            /\ m.largest_cluster = IF cl = <<>> THEN 0
                                   ELSE Max({Len(cl[c]) : c \in DOMAIN cl})
            /\ \A c \in DOMAIN cl : DictHas(dist, Len(cl[c]))
            /\ \A n \in DOMAIN dist :
                  /\ dist[n].v = Cardinality({c \in DOMAIN cl : Len(cl[c]) = dist[n].k})
                  /\ dist[n].v >= 1
                  /\ \A k \in DOMAIN dist : dist[k].k = dist[n].k => k = n
            /\ WeightedSum(dist) = m.total_records
            /\ CountSum(dist) = m.total_clusters
            /\ IF records = 0 THEN m.merge_rate = <<0, 1>>
               ELSE m.merge_rate[1] * records = (records - Len(cl)) * m.merge_rate[2]
            /\ m.merge_rate = MergeRate(EvResult)

\* An evaluation of a result with clusters of two different sizes.
C15_Witness ==
    /\ ev # <<>>
    /\ Len(ev[1].structural.cluster_distribution) >= 2
    /\ ev[1].structural.singletons >= 1
    /\ ev[1].structural.merge_rate[1] > 0

\* The member sets of the entities of a result.
MemberSets(r) == {MembersOf(r, K) : K \in EntitiesOf(r)}

\* The current result is the previous one except that the new source record
\* r3 has joined the previous entity P.
GrowCase(P, r3) ==
    /\ P \in EntitiesOf(LogPrev)
    /\ r3 \in Mapped(LogCurr) \ Mapped(LogPrev)
    /\ MemberSets(LogCurr) =
          (MemberSets(LogPrev) \ {MembersOf(LogPrev, P)})
              \cup {MembersOf(LogPrev, P) \cup {r3}}

\* C16: when the current result is the previous one except that one new
\* record r3 joined a previous cluster, the changelog holds exactly one
\* change: grown, with new_records [r3] and that cluster's entity as the
\* previous entity; every other entity is counted unchanged.
C16_IncrementalGrow ==
    log # <<>> =>
        \A P \in EntitiesOf(LogPrev) : \A r3 \in Mapped(LogCurr) :
            GrowCase(P, r3) =>
                /\ Len(log[1].changes) = 1
                /\ log[1].changes[1].change_type = "grown"
                /\ log[1].changes[1].new_records = {r3}
                /\ log[1].changes[1].previous_kanoniv_ids = {P}
                /\ log[1].changes[1].source_records = MembersOf(LogPrev, P) \cup {r3}
                /\ log[1].changes[1].kanoniv_id = MappedKid(LogCurr, r3)
                /\ log[1].unchanged_count = Cardinality(EntitiesOf(LogCurr)) - 1

\* A changelog for a previous cluster of two that one new record joined,
\* next to an entity that did not change.
C16_Witness ==
    /\ log # <<>>
    /\ \E P \in EntitiesOf(LogPrev) : \E r3 \in Mapped(LogCurr) :
          /\ GrowCase(P, r3)
          /\ Cardinality(MembersOf(LogPrev, P)) = 2
    /\ log[1].unchanged_count >= 1

\* ---- C17: cloud reconcile blocks until the job finishes or times out

\* The call went into _poll_job.
Polled == cloud.deadline # -1

PollEnded == Polled /\ cloud.pc = "done"

\* The status reads _poll_job has made that show one of `statuses`.
ReadsShowing(statuses) == {n \in DOMAIN cloud.reads : cloud.reads[n].shows \in statuses}

\* The status reads issued after the deadline had passed.
LateReads == {n \in DOMAIN cloud.reads : cloud.reads[n].at > cloud.deadline}

\* The deadline passed while the last known status was non-terminal: the clock
\* is past the deadline and no read has shown a terminal status, or the read
\* that showed it was made after the deadline.
DeadlinePassedNonTerminal ==
    \/ clock > cloud.deadline /\ ReadsShowing(Terminal) = {}
    \/ ReadsShowing(Terminal) \cap LateReads # {}

OutcomeByReads ==
    PollEnded =>
        /\ (cloud.outcome = "returned") = (ReadsShowing({"completed"}) # {})
        /\ (cloud.outcome = "RuntimeError") = (ReadsShowing({"failed", "cancelled"}) # {})

PollOutcomes == {"returned", "RuntimeError", "TimeoutError", "KanonivError"}

C17_Safety ==
    /\ OutcomeByReads
    /\ PollEnded => cloud.outcome \in PollOutcomes
    /\ PollEnded /\ cloud.outcome = "TimeoutError" =>
           /\ clock > cloud.deadline
           /\ ReadsShowing(Terminal) = {}
    /\ Polled =>
           /\ Cardinality(LateReads) <= 1
           /\ \A n \in ReadsShowing(Terminal) : n = Len(cloud.reads)
           /\ cloud.pc = "poll_sleep" /\ LateReads # {} => clock <= cloud.deadline

StatusReads == cloud.first \o cloud.reads

StatusReadsShowing(statuses) ==
    {n \in DOMAIN StatusReads : StatusReads[n].shows \in statuses}

\* C18: a call with resume_job_id uploads no spec, creates no source, ingests
\* no record and submits no job: every request it makes is a status read of
\* that job; it returns that job's result if a read shows it completed and
\* raises RuntimeError if a read shows it failed or cancelled.
C18_ResumeSkipsIngest ==
    cloud.resume =>
        /\ \A n \in DOMAIN server.calls : server.calls[n] = ServerCall("jobs.get", "job-1")
        /\ cloud.job_id = "job-1"
        /\ Len(server.calls) >= Len(StatusReads)
        /\ cloud.pc = "done" =>
               /\ StatusReadsShowing({"completed"}) # {} => cloud.outcome = "returned"
               /\ StatusReadsShowing({"failed", "cancelled"}) # {} =>
                      cloud.outcome = "RuntimeError"
               /\ cloud.outcome = "returned" => StatusReadsShowing({"completed"}) # {}

\* A resumed job that was still running at the first read and completed later.
C18_Witness ==
    /\ cloud.resume
    /\ cloud.pc = "done"
    /\ cloud.outcome = "returned"
    /\ cloud.first # <<>>
    /\ cloud.reads # <<>>
    /\ Len(server.calls) >= 2

\* ---- C19: a non-success response that ends a request is raised by status

\* The request was ended by a response.
EndedByResponse == http.pc = "done" /\ http.response # <<>>

EndingResponse == http.response[1]

Outcome == http.outcome[1]

\* The exception class named for each status.
ClassOf(status) ==
    CASE status = 400 -> "ValidationError"
      [] status = 401 -> "AuthenticationError"
      [] status = 403 -> "ForbiddenError"
      [] status = 404 -> "NotFoundError"
      [] status = 409 -> "ConflictError"
      [] status = 429 -> "RateLimitError"
      [] OTHER -> IF status >= 500 THEN "ServerError" ELSE "KanonivError"

\* C19: a response outside 2xx that ends a request is raised as the class
\* mapped from its status, carrying the status code and the body; the
\* RateLimitError of a 429 carries the Retry-After header's seconds, None
\* when the header is absent; a 204 response returns None.
C19_ErrorMapping ==
    EndedByResponse =>
        /\ EndingResponse.status \notin 200..299 =>
               /\ Outcome.kind = "raise"
               /\ Outcome.cls = ClassOf(EndingResponse.status)
               /\ Outcome.status_code = <<EndingResponse.status>>
               /\ Outcome.body = <<EndingResponse.body>>
               /\ EndingResponse.status = 429 =>
                      /\ EndingResponse.retry_after = None => Outcome.retry_after = <<>>
                      /\ EndingResponse.retry_after = "0" => Outcome.retry_after = <<0>>
                      /\ EndingResponse.retry_after = "5" => Outcome.retry_after = <<5>>
               /\ EndingResponse.status # 429 => Outcome.retry_after = <<>>
        /\ EndingResponse.status = 204 => Outcome = Returned(<<>>)

\* ---- C20: every request carries exactly the configured credential header

\* A credential was given: a non-empty string.
Given(credential) == credential # None /\ credential # ""

HeaderNames(headers) == {h.name : h \in headers}

\* C20: every attempt of every request carries X-API-Key with the key when an
\* api_key was given, whether or not an access_token was given too; otherwise
\* Authorization: Bearer <token> when an access_token was given; never both,
\* and neither when no credential was given.
C20_OneCredentialHeader ==
    \A n \in DOMAIN http.sent :
        LET headers == http.sent[n]
        IN  /\ Cardinality(headers) <= 1
            /\ Given(http.api_key) =>
                   headers = {[name |-> "X-API-Key", value |-> <<http.api_key>>]}
            /\ ~Given(http.api_key) /\ Given(http.access_token) =>
                   headers = {[name |-> "Authorization",
                               value |-> <<"Bearer ", http.access_token>>]}
            /\ ~Given(http.api_key) /\ ~Given(http.access_token) => headers = {}
            /\ ~({"X-API-Key", "Authorization"} \subseteq HeaderNames(headers))

\* A client given both credentials has made two requests, one of them retried.
C20_Witness ==
    /\ Given(http.api_key)
    /\ Given(http.access_token)
    /\ http.requests = 2
    /\ http.pc = "done"
    /\ Len(http.sent) >= 3

\* ---- C21: client.ingest posts the records to the per-source endpoint

\* The request in progress or last made is an ingest of `records` for source
\* "src-1".
IngestOf(records) ==
    /\ http.request # <<>>
    /\ http.request[1].method = "POST"
    /\ http.request[1] \in {IngestRequest("src-1", records, "entity"),
                            IngestRequestWebhook("src-1", records, "entity")}

\* The attempts of the request in progress or last made, as they went out.
AttemptsOnWire == http.wire

\* C21: every attempt of client.ingest(source_name, records) is a POST to
\* /v1/ingest/webhook/{source_name} that carries the records, and a successful
\* response's JSON is what the call returns.
C21_IngestWebhook ==
    \A records \in IngestRecords :
        IngestOf(records) =>
            /\ \A n \in DOMAIN AttemptsOnWire :
                   /\ AttemptsOnWire[n].method = "POST"
                   /\ AttemptsOnWire[n].path = <<"/v1/ingest/webhook/", "src-1">>
            /\ http.pc = "done" /\ http.response # <<>>
                   /\ http.response[1].status = 200 =>
                   http.outcome[1] = Returned(<<http.response[1].body>>)

\* ---- C22: a request makes at most 1 + max_retries attempts and ends

\* What came back from an attempt allows a further attempt.
RetryableEvent(event) ==
    \/ event.kind = "response" /\ event.status \in {408, 429, 502, 503, 504}
    \/ event.kind \in {"ConnectError", "ReadTimeout"}

\* An attempt has come back and the request goes on to a further attempt.
FurtherAttempt ==
    /\ http.pc = "attempt"
    /\ http'.pc = "attempt"
    /\ http'.made = http.made + 1

\* C22: a request makes at most 1 + max_retries attempts; an attempt is
\* followed by another only if it brought a 408, 429, 502, 503 or 504 or a
\* connect error or read timeout, and only while fewer than max_retries
\* retries have been made, so any other response is the last attempt; a
\* request that ends on a retryable failure ends with an exception; and a
\* request under way ends, with a return value or an exception.
C22_BoundedRetries ==
    /\ [](/\ http.max_retries >= 0 => http.made <= 1 + http.max_retries
          /\ http.max_retries < 0 => http.made = 0
          /\ http.pc = "done" =>
                 /\ http.outcome # <<>>
                 /\ http.outcome[1].kind \in {"return", "raise"}
                 /\ http.last # <<>> /\ RetryableEvent(http.last[1]) =>
                        http.outcome[1].kind = "raise")
    /\ [][FurtherAttempt =>
              /\ RetryableEvent(http'.last[1])
              /\ http.made < http.max_retries]_vars
    /\ (http.pc = "attempt") ~> (http.pc = "done")

\* A request with two retries that used them all and raised on the third
\* retryable response.
C22_Witness ==
    /\ http.pc = "done"
    /\ http.max_retries = 2
    /\ http.made = 3
    /\ http.last = <<[kind |-> "response", status |-> 503]>>
    /\ http.outcome[1].cls = "ServerError"

\* ---- C23: one cloud reconcile call starts at most one job

\* C23: a cloud reconcile call without resume_job_id starts at most one
\* reconciliation job on the server, whatever transport failures and retries
\* of the job-submission POST occur.
C23_AtMostOneJob == ~cloud.resume => server.jobs <= 1

\* ---- C24: the job is submitted after the spec and every record

\* The ingest requests the server has received for one source, and the
\* records in them, in the order received.
IngestCalls(name) ==
    LET OfSource(call) == call.op = "ingest" /\ call.arg.source = name
    IN  SelectSeq(server.calls, OfSource)

SentRecords(name) ==
    LET ingests == IngestCalls(name)
    IN  Flatten([i \in DOMAIN ingests |-> ingests[i].arg.batch])

SpecUploaded == \E i \in DOMAIN server.calls : server.calls[i].op = "specs.ingest"

AllSent ==
    \A name \in Range(Supplied(cloud.rows)) :
        SentRecords(name) = CloudRecords(cloud.rows, name, usePk, cloud.shape,
                                         AttrMaps(cloud.sources, <<>>))

\* reconcile has reached step 5, or a job-submission POST has been sent.
ReachedSubmit ==
    \/ cloud.pc = "submit"
    \/ cloud.attempt > 0
    \/ server.jobs > 0
    \/ cloud.pc \in Polling

UploadsPrecedeJob ==
    \A i, j \in DOMAIN server.calls :
        server.calls[i].op \in {"specs.ingest", "ingest"} /\ server.calls[j].op = "jobs.run"
            => i < j

\* C24: in the JSON path the job is submitted only after the spec upload and
\* after every record of every source has been sent in exactly one ingest
\* batch, in row order; no batch is empty or holds more than BATCH_SIZE
\* records; when the spec upload or an ingest batch raises, no job is
\* submitted.
C24_JobAfterUploads ==
    /\ ReachedSubmit => SpecUploaded /\ AllSent /\ UploadsPrecedeJob
    /\ \A i \in DOMAIN server.calls :
          server.calls[i].op = "ingest"
              => /\ Len(server.calls[i].arg.batch) >= 1
                 /\ Len(server.calls[i].arg.batch) <= BATCH_SIZE
    /\ cloud.raised_in \in {"upload_spec", "ingest"} => ~ReachedSubmit

\* A job has been submitted for a source sent in three batches.
C24_Witness ==
    /\ server.jobs = 1
    /\ cloud.pc \in Polling
    /\ Len(IngestCalls("crm")) = 3
    /\ Len(IngestCalls("web")) = 1

\* ---- C25: cloud reconcile maps attributes as local reconcile does

\* The data local reconcile hands to the engine for the rows of one source.
LocalData(name) ==
    LET attr_maps == AttrMaps(cloud.sources, <<>>)
        reverse_map == IF DictHas(attr_maps, name) THEN DictGet(attr_maps, name) ELSE <<>>
        entities == MapEntities(ToEntities(name, SourceRows(cloud.rows, name), usePk,
                                           cloud.shape, 1, 1),
                                cloud.shape, reverse_map)
    IN  [i \in DOMAIN entities |-> entities[i].data] \o <<>>

\* Local reconcile accepts the sources: _validate_source_attributes finds no
\* error.
LocalAccepts ==
    ValidateSourceAttributes(Supplied(cloud.rows), cloud.shape, cloud.sources).errors = <<>>

\* C25: every record the JSON path sends carries the data local reconcile
\* hands to the engine for the same row, for every spelling of the source
\* column names.
C25_SameMappingAsLocal ==
    cloud.pc # "idle" /\ LocalAccepts =>
        \A name \in Range(Supplied(cloud.rows)) :
            LET sent == SentRecords(name)
            IN  [i \in DOMAIN sent |-> sent[i].data] \o <<>>
                    = SubSeq(LocalData(name), 1, Len(sent))

\* ---- C29: a client made by the call is not leaked

\* The call has ended by raising.
CallRaised == cloud.pc = "done" /\ cloud.outcome # "returned"

\* C29: a client that reconcile or fetch_result made itself is closed when
\* the call has raised, and closed once the returned result has been closed.
C29_OwnClientNotLeaked ==
    cloud.owns_client /\ (CallRaised \/ cloud.closed) => ~cloud.own_client_open

\* ---- C26: unchanged_count counts the entities with the same members as before

\* The current entities whose member set is the member set of a previous
\* entity.
SameMembers ==
    {K \in EntitiesOf(LogCurr) :
        \E P \in EntitiesOf(LogPrev) : MembersOf(LogCurr, K) = MembersOf(LogPrev, P)}

\* C26: unchanged_count of a changelog is the number of current entities
\* whose member set is identical to that of one previous entity, so that an
\* entity that lost members or is a fragment of a split previous entity is
\* not counted.
C26_UnchangedCount ==
    log # <<>> => log[1].unchanged_count = Cardinality(SameMembers)

\* ---- C27: the stored spec hash is that of every run behind the clusters

\* Result j carries clusters over from the result it was made from.
CarriesOver(j) ==
    /\ j \in IncrementalCalls
    /\ \E c \in DOMAIN res[calls[j].previous].clusters, d \in DOMAIN res[j].clusters :
          Range(res[calls[j].previous].clusters[c]) \subseteq Range(res[j].clusters[d])

\* C27: along a chain of runs, a result that carries clusters over from the
\* preceding result stores the spec hash that result stores: no result
\* stores one hash while it holds clusters of a run made under another.
C27_HashOfEveryRun ==
    \A j \in DOMAIN res :
        CarriesOver(j) /\ GetSpecHash(res[calls[j].previous]) # None
            => GetSpecHash(res[j]) = GetSpecHash(res[calls[j].previous])

\* ---- C28: every mapped canonical attribute is carried by the record

\* C28: for every canonical attribute a spec declares for a source and whose
\* source column is a column of the row, the record handed to the engine
\* carries that attribute with the row's value in that column, also when
\* several canonical attributes name the same column.
C28_EveryMappedAttribute ==
    usePk =>
        \A i \in ReconcileCalls : \A e \in Range(calls[i].engine.entities) :
            LET decl == DeclOf(calls[i].sources, e.source_name)
                cols == Range(Columns(calls[i].shape))
            IN  \A n \in DOMAIN decl.attributes :
                    decl.attributes[n].v \in cols
                        => /\ decl.attributes[n].k \in DOMAIN e.data
                           /\ e.data[decl.attributes[n].k]
                                = RowData(e.external_id, calls[i].shape)[decl.attributes[n].v]

\* ---- C30: the example pipeline's entities are the connected components

RECURSIVE ReachableFrom(_, _)
\* The records joined to a record of S by a path of matched pairs.
ReachableFrom(S, matches) ==
    LET more == S \cup UNION {Matched(node, matches) : node \in S}
    IN  IF more = S THEN S ELSE ReachableFrom(more, matches)

\* C30: after the six passes two records have the same resolved_entity_id
\* exactly when a path of matched pairs joins them.
C30_ConnectedComponents ==
    dbt.pc = "clusters" =>
        \A a, b \in Records :
            dbt.clusters[a] = dbt.clusters[b]
                <=> b \in ReachableFrom({a}, Matches(dbt.scoring))

====
